---- MODULE Spec2Model ----
(***************************************************************************)
(* Zero-touch provisioning: the provisioning workflow of                   *)
(* ztp/orchestrator.py (ProvisioningOrchestrator.provision_device and its  *)
(* six steps, _cleanup, _close_connections) and the console command loop   *)
(* of ztp/ssh_manager.py (ConsoleManager.execute_device_command).          *)
(*                                                                         *)
(* Spec     one run of provision_device against an arbitrary environment   *)
(*          (inventory, jump host, terminal server, device, operator).     *)
(* SpecRun  one call of execute_device_command against an arbitrary        *)
(*          device; PagerFairSpec is the call against a device that        *)
(*          answers every poll with a pager marker, the loop progressing.  *)
(* SpecConnect   one call of SSHManager.connect or ConsoleManager.connect.  *)
(* SpecClose     connect, connect_to_console and close on one manager.     *)
(* SpecParse     parse_show_version on one output; SpecNoise with terminal *)
(*               artifacts injected into it.                               *)
(* SpecEnable    one call of _enter_enable_mode.                           *)
(* SpecMarkers   _extract_verification_markers on one configuration text.  *)
(* SpecCheck     one pass of _verify_configuration_applied, with the text  *)
(*               of each command and of its output.                        *)
(*                                                                         *)
(* Time is counted in poll intervals: time.sleep(1) of the command loop    *)
(* advances the clock by PollInterval, the other statements take no time.  *)
(* A KeyboardInterrupt is delivered where the program blocks (network      *)
(* calls, sleeps, the polling loop).                                       *)
(***************************************************************************)
EXTENDS Integers, Sequences, FiniteSets, TLC

VARIABLES
    \* ---- ProvisioningOrchestrator -------------------------------------
    pc,               \* position inside provision_device
    state,            \* self.state
    history,          \* the values self.state has been assigned, in order
    netbox_client,    \* self.netbox_client is not None
    netboxCalls,      \* the inventory calls of step 1 and what each raised, in order
    ssh_manager,      \* self.ssh_manager is not None
    console_manager,  \* self.console_manager is not None
    device_config,    \* self.device_config: the verification markers it yields
    expected_serial,  \* self.expected_serial
    actual_serial,    \* self.actual_serial
    config_filename,  \* self.config_filename is not None
    exc,              \* exception propagating out of the try block
    result,           \* what provision_device returned or raised to main
    report,           \* what main printed about the run, and its exit status
    sentCmds,         \* commands written to the device console, in order
    jumpCmds,         \* commands run on the jump host, in order
    executed,         \* the steps entered so far, in order
    failedStep,       \* the step that raised (0: none)
    stateAtFailure,   \* self.state when the exception left the step
    cleanupRuns,      \* calls of _cleanup
    closeRuns,        \* calls of _close_connections
    consoleCloses,    \* calls of console_manager.close()
    sshCloses,        \* calls of ssh_manager.close()
    stepExc,          \* exception class that left the failing step
    step_output,      \* the local `output` of the step that ran last
    staged_file,      \* the staged file on the jump host when it is listed
    exit_code,        \* exit code of "ls -lh" in step 2
    check_results,    \* what each marker's check came to in step 6
    failed_list,      \* the markers named in the verification error
    log,              \* entries written through the loggers
    \* ---- ConsoleManager.execute_device_command -------------------------
    rpc,              \* "idle", "loop", "returned"
    wait_time, timeout, expect, handle_pagination, auto_confirm,
    devMode,          \* behaviour of the device during the call
    elapsed,          \* time.time() - start_time
    sinceSend,        \* time since the command was sent (capped)
    idleTicks,        \* time since the last byte arrived (capped)
    pagination_count,
    confirmation_sent,
    spacesSent,       \* ' ' written to the channel
    confirmsSent,     \* '\n' written to the channel after the command
    expectSeen,       \* expect in output
    lastChunk,        \* the chunk read by the last poll
    reason,           \* which break left the loop
    \* ---- SSHManager.connect, ConsoleManager.connect ---------------------
    cpc,              \* "idle", "try", "sleep", "done"
    manager,          \* the class whose connect is called
    retries, retry_delay,
    attempt,          \* the loop variable
    connected,        \* self._connected
    tries,            \* what each client.connect() call came to, in order
    sleeps,           \* the arguments of the time.sleep calls, in order
    raised,           \* what left connect: nothing yet, a return, an exception
    \* ---- SSHManager / ConsoleManager: connect, connect_to_console, close --
    client,           \* self.client: "None", or the state of the SSHClient object
    channel,          \* self.channel: "None", or the state of the Channel object
    calls,            \* the methods called on the manager and what each raised
    beforeClose,      \* the manager's fields when close() was last called
    \* ---- ConsoleManager.parse_show_version ------------------------------
    ppc,              \* "input", "parsed"
    sample,           \* the device output as the device produced it
    noisy,            \* the output as read: the sample with artifacts injected
    injected,         \* the number of artifacts injected
    extracted,        \* what parse_show_version returned for the sample and for noisy
    \* ---- ProvisioningOrchestrator._extract_verification_markers ---------
    mpc,              \* "input", "extracted"
    config,           \* self.device_config, line by line
    markers,          \* the list returned
    \* ---- ProvisioningOrchestrator._enter_enable_mode --------------------
    epc,              \* "idle", "prompt", "enable", "password", "recheck", "done"
    sends,            \* what was written to the channel, in order
    outputs,          \* what each _read_channel() returned, in order
    eraised,          \* what left the method: nothing yet, a return, an exception
    \* ---- ProvisioningOrchestrator._verify_configuration_applied ---------
    vpc,              \* "idle", "loop", "done"
    verification_items, \* the markers to check
    running_config,   \* the marker values present in the device's running config
    echoes,           \* the device echoes the command line it is sent
    vidx,             \* the position of the loop in verification_items
    verdicts,         \* what each check came to, in order
    failed_items,     \* positions of the markers put on the missing list
    vraised           \* what left the pass: nothing yet, a return, an exception

wfVars == <<pc, state, history, netbox_client, netboxCalls, ssh_manager, console_manager,
            device_config, expected_serial, actual_serial, config_filename,
            exc, result, report, sentCmds, jumpCmds, executed, failedStep,
            stateAtFailure, cleanupRuns, closeRuns, consoleCloses, sshCloses,
            stepExc, step_output, staged_file, exit_code, check_results,
            failed_list, log>>

runVars == <<rpc, wait_time, timeout, expect, handle_pagination, auto_confirm,
             devMode, elapsed, sinceSend, idleTicks, pagination_count,
             confirmation_sent, spacesSent, confirmsSent, expectSeen,
             lastChunk, reason>>

connVars == <<cpc, manager, retries, retry_delay, attempt, connected, tries,
              sleeps, raised>>

closeVars == <<client, channel, calls, beforeClose>>

parseVars == <<ppc, sample, noisy, injected, extracted>>

markerVars == <<mpc, config, markers>>

enableVars == <<epc, sends, outputs, eraised>>

checkVars == <<vpc, verification_items, running_config, echoes, vidx, verdicts,
               failed_items, vraised>>

auxVars == <<markerVars, enableVars, checkVars>>

vars == <<wfVars, runVars, connVars, closeVars, parseVars, auxVars>>

----------------------------------------------------------------------------
(* Bounds of the model *)

MaxMarkers == 2
MaxLines == 2
MaxWait == 2
MaxTimeout == 3
MaxRetries == 3
MaxDelay == 2
MaxSampleLines == 3
MaxNoise == 2
MaxConfigLines == 5

----------------------------------------------------------------------------
(* Text: a string is a sequence of characters *)

Letters == <<"a","b","c","d","e","f","g","h","i","j","k","l","m",
             "n","o","p","q","r","s","t","u","v","w","x","y","z">>

Uppers  == <<"A","B","C","D","E","F","G","H","I","J","K","L","M",
             "N","O","P","Q","R","S","T","U","V","W","X","Y","Z">>

IndexIn(c, seq) == CHOOSE i \in 1..Len(seq) : seq[i] = c

\* ord(c) for the characters that occur
Ord(c) ==
    IF \E i \in 1..26 : Letters[i] = c THEN 96 + IndexIn(c, Letters)
    ELSE IF \E i \in 1..26 : Uppers[i] = c THEN 64 + IndexIn(c, Uppers)
    ELSE IF c = "_" THEN 95
    ELSE IF c = "/" THEN 47
    ELSE 48

\* str.lower() of one character
LowerOf == [c \in {Uppers[i] : i \in 1..26} |-> Letters[IndexIn(c, Uppers)]]

LowerChar(c) == IF c \in DOMAIN LowerOf THEN LowerOf[c] ELSE c

\* str.lower()
Lower(s) == [i \in 1..Len(s) |-> LowerChar(s[i])]

\* s >= t for Python strings: lexicographic on code points
RECURSIVE StrGE(_, _)
StrGE(s, t) ==
    IF t = <<>> THEN TRUE
    ELSE IF s = <<>> THEN FALSE
    ELSE IF Ord(s[1]) > Ord(t[1]) THEN TRUE
    ELSE IF Ord(s[1]) < Ord(t[1]) THEN FALSE
    ELSE StrGE(Tail(s), Tail(t))

----------------------------------------------------------------------------
(* ProvisioningState *)

ProvisioningState ==
    <<"INITIALIZED", "NETBOX_CONNECTED", "CONFIG_RETRIEVED", "FTP_FILE_CREATED",
      "CONSOLE_CONNECTED", "DEVICE_VERIFIED", "CONFIG_COPIED_TO_FLASH",
      "CONFIG_APPLIED", "COMPLETED", "FAILED">>

States == {ProvisioningState[i] : i \in 1..Len(ProvisioningState)}

\* ProvisioningState.<st>.value
StateValue(st) ==
    CASE st = "INITIALIZED" -> <<"i","n","i","t","i","a","l","i","z","e","d">>
      [] st = "NETBOX_CONNECTED" -> <<"n","e","t","b","o","x","_","c","o","n","n","e","c","t","e","d">>
      [] st = "CONFIG_RETRIEVED" -> <<"c","o","n","f","i","g","_","r","e","t","r","i","e","v","e","d">>
      [] st = "FTP_FILE_CREATED" -> <<"f","t","p","_","f","i","l","e","_","c","r","e","a","t","e","d">>
      [] st = "CONSOLE_CONNECTED" -> <<"c","o","n","s","o","l","e","_","c","o","n","n","e","c","t","e","d">>
      [] st = "DEVICE_VERIFIED" -> <<"d","e","v","i","c","e","_","v","e","r","i","f","i","e","d">>
      [] st = "CONFIG_COPIED_TO_FLASH" -> <<"c","o","n","f","i","g","_","c","o","p","i","e","d","_","t","o","_","f","l","a","s","h">>
      [] st = "CONFIG_APPLIED" -> <<"c","o","n","f","i","g","_","a","p","p","l","i","e","d">>
      [] st = "COMPLETED" -> <<"c","o","m","p","l","e","t","e","d">>
      [] st = "FAILED" -> <<"f","a","i","l","e","d">>

----------------------------------------------------------------------------
(* Exception classes *)

NoExc == "None"

Parent ==
    [ Exception                    |-> "BaseException",
      KeyboardInterrupt            |-> "BaseException",
      AttributeError               |-> "Exception",
      OSError                      |-> "Exception",
      ProvisioningError            |-> "Exception",
      DeviceVerificationError      |-> "ProvisioningError",
      ConfigurationDeploymentError |-> "ProvisioningError",
      NetBoxClientError            |-> "Exception",
      DeviceNotFoundError          |-> "NetBoxClientError",
      ConfigurationNotFoundError   |-> "NetBoxClientError",
      SSHException                 |-> "Exception",
      AuthenticationException      |-> "SSHException",
      TimeoutError                 |-> "OSError",
      NoValidConnectionsError      |-> "OSError",
      SSHError                     |-> "Exception",
      ConnectionError              |-> "SSHError",
      CommandExecutionError        |-> "SSHError" ]

ExcClasses == DOMAIN Parent

\* isinstance(e, cls)
RECURSIVE IsInstance(_, _)
IsInstance(e, cls) ==
    \/ e = cls
    \/ e \in DOMAIN Parent /\ IsInstance(Parent[e], cls)

\* the except clauses of the six steps: what leaves the step when e is raised in it
\* step 1 without its except clauses: the inventory error leaves as it is
Step1Raises_Unwrapped(e) == e

Step1Raises(e) ==
    IF IsInstance(e, "NetBoxClientError") THEN "ProvisioningError" ELSE e

Step2Raises(e) ==
    IF IsInstance(e, "SSHError") THEN "ProvisioningError" ELSE e

Step3Raises(e) ==
    IF IsInstance(e, "ConnectionError") \/ IsInstance(e, "CommandExecutionError")
    THEN "ProvisioningError" ELSE e

\* a step 4 without its "except DeviceVerificationError: raise" clause
Step4Raises_WrapsAll(e) ==
    IF IsInstance(e, "Exception") THEN "ProvisioningError" ELSE e

Step4Raises(e) ==
    IF IsInstance(e, "DeviceVerificationError") THEN e
    ELSE IF IsInstance(e, "Exception") THEN "ProvisioningError" ELSE e

Step5Raises(e) ==
    IF IsInstance(e, "ConfigurationDeploymentError") THEN e
    ELSE IF IsInstance(e, "Exception") THEN "ProvisioningError" ELSE e

Step6Raises(e) ==
    IF IsInstance(e, "ConfigurationDeploymentError") THEN e
    ELSE IF IsInstance(e, "Exception") THEN "ProvisioningError" ELSE e

\* a handler that catches the workflow's own errors only
CaughtByExcept_ProvisioningOnly(e) == IsInstance(e, "ProvisioningError")

\* provision_device: "except Exception as e"
CaughtByExcept(e) == IsInstance(e, "Exception")

----------------------------------------------------------------------------
(* Values the environment supplies *)

None == <<"None">>

\* serials recorded in the inventory (device.serial.strip(), possibly empty)
ExpectedSerials == { <<"A","b">>, <<"a","b">>, <<"b","b">>, <<>> }

\* tokens a 'show version' line can carry
Tokens == { <<"A","b">>, <<"a","B">>, <<"b","b">>, <<"N","o","n","e">> }

\* A console text is a sequence of symbols: a symbol is one character, or a
\* run of letters of a keyword written as one symbol ("Number" is "Num","ber").
\* "ESC" is the character \x1b and "BS" the character \x08.
IsSpace(c) == c \in {" ", "\n"}

IsAlpha(c) == \E i \in 1..26 : Letters[i] = c \/ Uppers[i] = c

IsParam(c) == c \in {"0", "1", "2", "5", ";"}

\* the two pager banners
MoreBanner == <<"--", "More", "--">>

MoreBannerSpaced == <<"--", " ", "More", " ", "--">>

\* s occurs in text at position i
OccursAt(text, s, i) ==
    /\ i + Len(s) - 1 <= Len(text)
    /\ text[i] = s[1]
    /\ SubSeq(text, i, i + Len(s) - 1) = s

\* str.replace(s, ''): the occurrences of s, left to right, in one pass
RECURSIVE ReplaceFrom(_, _, _)
ReplaceFrom(text, s, i) ==
    IF i > Len(text) THEN <<>>
    ELSE IF OccursAt(text, s, i) THEN ReplaceFrom(text, s, i + Len(s))
    ELSE <<text[i]>> \o ReplaceFrom(text, s, i + 1)

Replace(text, s) == ReplaceFrom(text, s, 1)

\* re.sub(r'\x08+', '', text)
RemoveBackspaces(text) == SelectSeq(text, LAMBDA c : c # "BS")

\* the length of the run of [0-9;] at position i
RECURSIVE ParamRun(_, _)
ParamRun(text, i) ==
    IF i <= Len(text) /\ IsParam(text[i]) THEN 1 + ParamRun(text, i + 1) ELSE 0

\* the length of the match of \x1b\[[0-9;]*[a-zA-Z] at position i, 0 if none
AnsiAt(text, i) ==
    IF i + 1 <= Len(text) /\ text[i] = "ESC" /\ text[i + 1] = "["
    THEN LET n == ParamRun(text, i + 2) IN
         IF i + 2 + n <= Len(text) /\ IsAlpha(text[i + 2 + n]) THEN n + 3 ELSE 0
    ELSE 0

\* re.sub(r'\x1b\[[0-9;]*[a-zA-Z]', '', text)
RECURSIVE RemoveAnsiFrom(_, _)
RemoveAnsiFrom(text, i) ==
    IF i > Len(text) THEN <<>>
    ELSE IF AnsiAt(text, i) > 0 THEN RemoveAnsiFrom(text, i + AnsiAt(text, i))
    ELSE <<text[i]>> \o RemoveAnsiFrom(text, i + 1)

RemoveAnsi(text) == RemoveAnsiFrom(text, 1)

\* cleaned_output: the two replacements, then the two substitutions
Clean(text) ==
    RemoveAnsi(RemoveBackspaces(Replace(Replace(text, MoreBanner), MoreBannerSpaced)))

\* the elements of the serial patterns
Lit(c) == [op |-> "lit", c |-> c]

Word(w) == [i \in 1..Len(w) |-> Lit(w[i])]

\* \s*
Ws0 == <<[op |-> "ws*", c |-> ""]>>

\* \s+
Ws1 == <<[op |-> "ws+", c |-> ""]>>

\* :?
OptColon == <<[op |-> "colon?", c |-> ":"]>>

\* \S+
NonSpace == <<[op |-> "tok", c |-> ""]>>

\* (\S+), the group that closes every pattern
Group == <<[op |-> "cap", c |-> ""]>>

ModelNumber == <<"Model", " ", "Num", "ber">>

SystemSerialNumber == <<"System", " ", "Serial", " ", "Num", "ber">>

ProcessorBoardID == <<"Processor", " ", "board", " ", "ID">>

ChassisSerialNumber == <<"Chassis", " ", "Serial", " ", "Num", "ber">>

\* r'Model [Nn]umber\s*:?\s*\S+\s+[Ss]ystem [Ss]erial [Nn]umber\s*:?\s*(\S+)'
CombinedPattern ==
    Word(ModelNumber) \o Ws0 \o OptColon \o Ws0 \o NonSpace \o Ws1
        \o Word(SystemSerialNumber) \o Ws0 \o OptColon \o Ws0 \o Group

\* r'[Ss]ystem [Ss]erial [Nn]umber\s*:?\s*(\S+)'
BarePattern == Word(SystemSerialNumber) \o Ws0 \o OptColon \o Ws0 \o Group

\* r'[Ss]erial\s+[Nn]umber\s*:?\s+(\S+)'
SerialNumberPattern ==
    Word(<<"Serial">>) \o Ws1 \o Word(<<"Num", "ber">>) \o Ws0 \o OptColon \o Ws1 \o Group

\* r'[Pp]rocessor [Bb]oard ID\s+(\S+)'
BoardPattern == Word(ProcessorBoardID) \o Ws1 \o Group

\* r'Chassis Serial Number\s*:?\s+(\S+)'
ChassisPattern == Word(ChassisSerialNumber) \o Ws0 \o OptColon \o Ws1 \o Group

\* r'Serial [Nn]um\s*:?\s*(\S+)'
SerialNumPattern == Word(<<"Serial", " ", "Num">>) \o Ws0 \o OptColon \o Ws0 \o Group

\* r'SN\s*:?\s*(\S+)'
SNPattern == Word(<<"S", "N">>) \o Ws0 \o OptColon \o Ws0 \o Group

\* the same list with the bare 'System Serial Number' pattern tried first
Patterns_BareFirst ==
    << BarePattern, CombinedPattern, SerialNumberPattern, BoardPattern,
       ChassisPattern, SerialNumPattern, SNPattern >>

\* the serial patterns of parse_show_version, in the order they are tried
Patterns ==
    << CombinedPattern, BarePattern, SerialNumberPattern, BoardPattern,
       ChassisPattern, SerialNumPattern, SNPattern >>

PatternCount == 7

\* the length of the run of whitespace at position i
RECURSIVE SpaceRun(_, _)
SpaceRun(text, i) ==
    IF i <= Len(text) /\ IsSpace(text[i]) THEN 1 + SpaceRun(text, i + 1) ELSE 0

\* the length of the run of non-whitespace at position i
RECURSIVE TokenRun(_, _)
TokenRun(text, i) ==
    IF i <= Len(text) /\ ~IsSpace(text[i]) THEN 1 + TokenRun(text, i + 1) ELSE 0

NoMatch == [ok |-> FALSE, cap |-> <<>>]

\* the match of the elements k.. of pat at position i of text, as the regex
\* engine finds it: a repetition takes all it can and gives back one symbol
\* at a time; letters are compared ignoring case (re.IGNORECASE)
RECURSIVE MatchFrom(_, _, _, _)
RECURSIVE TryRun(_, _, _, _, _, _)
MatchFrom(text, i, pat, k) ==
    IF k > Len(pat) THEN [ok |-> TRUE, cap |-> <<>>]
    ELSE CASE pat[k].op = "lit" ->
                IF i <= Len(text) /\ LowerChar(text[i]) = LowerChar(pat[k].c)
                THEN MatchFrom(text, i + 1, pat, k + 1)
                ELSE NoMatch
           [] pat[k].op = "ws*" -> TryRun(text, i, SpaceRun(text, i), 0, pat, k + 1)
           [] pat[k].op = "ws+" -> TryRun(text, i, SpaceRun(text, i), 1, pat, k + 1)
           [] pat[k].op = "tok" -> TryRun(text, i, TokenRun(text, i), 1, pat, k + 1)
           [] pat[k].op = "colon?" ->
                LET m == IF i <= Len(text) /\ text[i] = ":"
                         THEN MatchFrom(text, i + 1, pat, k + 1)
                         ELSE NoMatch
                IN  IF m.ok THEN m ELSE MatchFrom(text, i, pat, k + 1)
           [] pat[k].op = "cap" ->
                LET n == TokenRun(text, i) IN
                IF n = 0 THEN NoMatch
                ELSE [ok |-> TRUE, cap |-> SubSeq(text, i, i + n - 1)]

TryRun(text, i, n, min, pat, k) ==
    IF n < min THEN NoMatch
    ELSE LET m == MatchFrom(text, i + n, pat, k) IN
         IF m.ok THEN m ELSE TryRun(text, i, n - 1, min, pat, k)

\* re.search(pattern, text, re.IGNORECASE): the leftmost match
RECURSIVE SearchFrom(_, _, _)
SearchFrom(text, pat, i) ==
    IF i > Len(text) THEN NoMatch
    ELSE LET m == MatchFrom(text, i, pat, 1) IN
         IF m.ok THEN m ELSE SearchFrom(text, pat, i + 1)

Search(text, pat) == SearchFrom(text, pat, 1)

\* str.strip()
RECURSIVE Strip(_)
Strip(s) ==
    IF s = <<>> THEN s
    ELSE IF IsSpace(s[1]) THEN Strip(Tail(s))
    ELSE IF IsSpace(s[Len(s)]) THEN Strip(SubSeq(s, 1, Len(s) - 1))
    ELSE s

Placeholders == { <<"n","o","n","e">>, <<"n","/","a">>, <<"u","n","k","n","o","w","n">>, <<>> }

\* a check that turns away the empty capture only
Accepted_NonEmpty(serial) == serial # <<>>

\* if serial and serial.lower() not in ['none', 'n/a', 'unknown', '']
Accepted(serial) == serial # <<>> /\ Lower(serial) \notin Placeholders

\* the loop over the patterns from p on; None when none yields an accepted token
RECURSIVE ParseFrom(_, _)
ParseFrom(text, p) ==
    IF p > PatternCount THEN None
    ELSE LET m == Search(text, Patterns[p]) IN
         IF m.ok /\ Accepted(Strip(m.cap))
         THEN Strip(m.cap)
         ELSE ParseFrom(text, p + 1)

parse_show_version(output) == ParseFrom(Clean(output), 1)

\* a line of a 'show version' output that carries a token:
\* "Model Number: <tok>", "System Serial Number: <tok>", "Processor board ID <tok>"
LineText(line) ==
    (CASE line.form = "model" -> ModelNumber \o <<":", " ">>
       [] line.form = "system" -> SystemSerialNumber \o <<":", " ">>
       [] line.form = "board" -> ProcessorBoardID \o <<" ">>) \o line.tok \o <<"\n">>

RECURSIVE Join(_)
Join(lines) == IF lines = <<>> THEN <<>> ELSE LineText(Head(lines)) \o Join(Tail(lines))

\* the 'show version' outputs of the workflow: serial lines in two forms
LineForms == {"system", "board"}

ShowVersionLines == [form : LineForms, tok : Tokens]

ShowVersionOutputs ==
    { Join(ls) : ls \in UNION { [1..n -> ShowVersionLines] : n \in 0..MaxLines } }

\* parse_show_version on the outputs of the workflow, tabulated
SerialIn == [output \in ShowVersionOutputs |-> parse_show_version(output)]

\* the number of lines of a text
LineCount(text) == Cardinality({ i \in 1..Len(text) : text[i] = "\n" })

\* the comparison with an empty expected serial taken as 'nothing to check'
SerialMatches_EmptyExpected(expected, actual) ==
    expected = <<>> \/ Lower(expected) = Lower(actual)

\* _step_verify_device: expected_serial.lower() != actual_serial.lower() is false
SerialMatches(expected, actual) == Lower(expected) = Lower(actual)

\* the verification markers of a configuration text, by kind
MarkerKinds == {"hostname", "vlan"}

Configs == UNION { [1..n -> MarkerKinds] : n \in 0..MaxMarkers }

\* substrings _step_copy_config_to_flash looks for in the lower-cased output
CopyMarkers == {"bytes copied", "ok", "error", "fail"}

\* an output of the copy command: the looked-for substrings found in it, and
\* whether the device echoed the command line back
CopyOutputs == [echo : BOOLEAN, found : SUBSET CopyMarkers]

\* substrings _step_apply_configuration looks for in the lower-cased output
ApplyMarkers == {"bytes copied", "ok", "success", "completed", "error", "no error"}

\* the success indicators among them
ApplyIndicators == {"bytes copied", "ok", "success", "completed"}

\* an output of the activate command: the looked-for substrings found in it;
\* at most one success indicator, and "no error" only along with "error"
ApplyOutputs ==
    { o \in SUBSET ApplyMarkers :
        /\ "no error" \in o => "error" \in o
        /\ \A a, b \in o \cap ApplyIndicators : a = b }

\* a classification that takes every output without a success marker for a failure
CopyVerdict_SuccessOrError(out) ==
    IF "bytes copied" \in out \/ "ok" \in out THEN "success"
    ELSE "error"

\* _step_copy_config_to_flash: the three-way classification of the output
CopyVerdict(out) ==
    IF "bytes copied" \in out \/ "ok" \in out THEN "success"
    ELSE IF "error" \in out \/ "fail" \in out THEN "error"
    ELSE "unclear"

\* an error check that a success indicator in the same output overrides
ApplyHasError_UnlessSucceeded(out) ==
    /\ "error" \in out /\ "no error" \notin out
    /\ out \cap {"bytes copied", "ok", "success", "completed"} = {}

\* _step_apply_configuration: the error check and the success check
ApplyHasError(out) == "error" \in out /\ "no error" \notin out

ApplySucceeded(out) ==
    "bytes copied" \in out \/ "ok" \in out \/ "success" \in out \/ "completed" \in out

\* _verify_configuration_applied: verify_cmd for a marker kind
VerifyCmd(kind) ==
    IF kind = "hostname" THEN "show running-config | include hostname"
    ELSE "show running-config | include vlan"

\* the removal decided without looking at the state
CleanupRemovesFile_NoStateCheck(st, ssh, fname) == ssh /\ fname

\* _cleanup: the condition under which the staged file is removed
CleanupRemovesFile(st, ssh, fname) ==
    /\ StrGE(StateValue(st), StateValue("FTP_FILE_CREATED"))
    /\ ssh
    /\ fname

\* the close of the jump host skipped when the console close raised
ClosesSSH_UnlessConsoleRaised(ssh, consoleCloseRaised) == ssh /\ ~consoleCloseRaised

\* _close_connections: ssh_manager.close() is called
ClosesSSH(ssh, consoleCloseRaised) == ssh

\* connect has neither returned nor raised
NotLeft == [kind |-> "none", names |-> {}]

\* main has printed no outcome yet
NoReport == [banner |-> "none", error |-> "none", status |-> <<>>, exit |-> -1]

\* the verification pass before it has run
NoChecks == [ran |-> FALSE, r |-> <<>>]

\* the `output` local before any command of the step has returned
NoOutput == [cmd |-> "none", text |-> {}]

\* texts are sets of the parts they are put together from
ftp_password == "ftp_password"

ftp_url == {"ftp://", "ftp_username", ":", ftp_password, "@", "ftp_server_ip", "//", "config_filename"}

\* "Sanitized URL for logging (hide password)"
ftp_url_log == {"ftp://", "ftp_username", ":", "****", "@", "ftp_server_ip", "//", "config_filename"}

copy_command == {"copy "} \cup ftp_url \cup {" flash: vrf Mgmt-vrf"}

copy_command_log == {"copy "} \cup ftp_url_log \cup {" flash: vrf Mgmt-vrf"}

\* the text of an output of the copy command
CopyText(o) == (IF o.echo THEN copy_command ELSE {}) \cup o.found

\* one logger call: its level, the call site, and whether the text written
\* holds the FTP password
LogEntry(level, site, text) ==
    [level |-> level, site |-> site, secret |-> ftp_password \in text]

\* ConsoleManager.execute_device_command: what it logs before the command is
\* written, and when the command returned
LogCommand(text) == { LogEntry("DEBUG", "execute_device_command:397", text) }

LogCommandOutput(text) == { LogEntry("DEBUG", "execute_device_command:469", text) }

\* _step_copy_config_to_flash: what the branch taken logs of the output
CopyVerdictLog(out) ==
    CASE CopyVerdict(out.found) = "error" ->
            { LogEntry("ERROR", "_step_copy_config_to_flash:474", CopyText(out)) }
      [] CopyVerdict(out.found) = "unclear" ->
            { LogEntry("DEBUG", "_step_copy_config_to_flash:480", CopyText(out)) }
      [] OTHER -> {}

\* str(e) of the exception that leaves step n, as far as it quotes an output
ExcMessage(n, e, out) ==
    IF n = 5 /\ e = "ConfigurationDeploymentError" /\ out.cmd = "copy ftp flash"
    THEN CopyText(out.text)
    ELSE {}

\* what create_remote_file can leave on the jump host when "ls -lh" runs
StagedFiles == {"absent", "empty", "nonempty"}

\* "ls -lh <path>" exits 0 exactly when the path exists
LsExitCode(f) == IF f = "absent" THEN 2 ELSE 0

----------------------------------------------------------------------------
(* provision_device *)

\* a chunk returned by _read_channel: whether it holds any byte, a pager
\* marker, a confirmation prompt, and whether it completes `expect` in output
NoChunk == [data |-> FALSE, more |-> FALSE, confirm |-> FALSE, hit |-> FALSE]

\* the run-loop variables before any call of execute_device_command
RunIdle ==
    /\ rpc = "idle"
    /\ wait_time = 1 /\ timeout = 1 /\ expect = FALSE
    /\ handle_pagination = TRUE /\ auto_confirm = FALSE
    /\ devMode = "free"
    /\ elapsed = 0 /\ sinceSend = 0 /\ idleTicks = 0
    /\ pagination_count = 0 /\ confirmation_sent = FALSE
    /\ spacesSent = 0 /\ confirmsSent = 0
    /\ expectSeen = FALSE /\ lastChunk = NoChunk /\ reason = "none"

\* ProvisioningOrchestrator.__init__
WfInit ==
    /\ pc = "step1"
    /\ state = "INITIALIZED"
    /\ history = <<"INITIALIZED">>
    /\ netbox_client = FALSE
    /\ netboxCalls = <<>>
    /\ ssh_manager = FALSE
    /\ console_manager = FALSE
    /\ device_config = None
    /\ expected_serial = None
    /\ actual_serial = None
    /\ config_filename = FALSE
    /\ exc = NoExc
    /\ result = "none"
    /\ report = NoReport
    /\ sentCmds = <<>>
    /\ jumpCmds = <<>>
    /\ executed = <<>>
    /\ failedStep = 0
    /\ stateAtFailure = "None"
    /\ cleanupRuns = 0
    /\ closeRuns = 0
    /\ consoleCloses = 0
    /\ sshCloses = 0
    /\ stepExc = NoExc
    /\ step_output = NoOutput
    /\ staged_file = "absent"
    /\ exit_code = -1
    /\ check_results = NoChecks
    /\ failed_list = {}
    /\ log = {}

\* the connect variables before any call of connect
ConnIdle ==
    /\ cpc = "idle"
    /\ manager = "SSHManager"
    /\ retries = 3 /\ retry_delay = 5
    /\ attempt = 0
    /\ connected = FALSE
    /\ tries = <<>>
    /\ sleeps = <<>>
    /\ raised = NotLeft

\* the manager before any method is called on it (__init__)
CloseIdle ==
    /\ client = "None"
    /\ channel = "None"
    /\ calls = <<>>
    /\ beforeClose = <<"None", "None", FALSE>>

\* the extractor variables before any call of parse_show_version
ParseIdle ==
    /\ ppc = "input"
    /\ sample = <<>>
    /\ noisy = <<>>
    /\ injected = 0
    /\ extracted = <<None, None>>

\* the extractor of verification markers before it is called
MarkerIdle ==
    /\ mpc = "input"
    /\ config = <<>>
    /\ markers = <<>>

\* the enable-mode handshake before it is started
EnableIdle ==
    /\ epc = "idle"
    /\ sends = <<>>
    /\ outputs = <<>>
    /\ eraised = "none"

\* the verification pass before it is started
CheckIdle ==
    /\ vpc = "idle"
    /\ verification_items = <<>>
    /\ running_config = {}
    /\ echoes = FALSE
    /\ vidx = 1
    /\ verdicts = <<>>
    /\ failed_items = <<>>
    /\ vraised = "none"

AuxIdle == MarkerIdle /\ EnableIdle /\ CheckIdle

Init == WfInit /\ RunIdle /\ ConnIdle /\ CloseIdle /\ ParseIdle /\ AuxIdle

\* what a step that leaves with self.state st has assigned to it, given that
\* each step assigns at most one value (step 1, which assigns two, aside)
Assigned(st) == IF st = state THEN <<>> ELSE <<st>>

\* a failing step that rolls self.state back to its first value
Fail_ResetsState(n, e, st) ==
    /\ state' = "INITIALIZED"
    /\ history' = Append(history, "INITIALIZED")
    /\ exc' = e
    /\ failedStep' = n
    /\ stateAtFailure' = st
    /\ stepExc' = e
    /\ pc' = IF CaughtByExcept(e) THEN "except" ELSE "finally"

\* step n leaves the try block with exception e while self.state is st
Fail(n, e, st) ==
    /\ state' = st
    /\ history' = history \o Assigned(st)
    /\ exc' = e
    /\ failedStep' = n
    /\ stateAtFailure' = st
    /\ stepExc' = e
    /\ pc' = IF CaughtByExcept(e) THEN "except" ELSE "finally"

\* step n returns with self.state st
Continue(next, st) ==
    /\ state' = st
    /\ history' = history \o Assigned(st)
    /\ pc' = next
    /\ UNCHANGED <<exc, failedStep, stateAtFailure, stepExc>>

\* what one call of execute_device_command can do to its caller:
\* raise before the command is written, raise after it, be interrupted, return
CmdOutcomes == {"notsent", "raised", "interrupted", "returned"}

CmdExc(o) == IF o = "interrupted" THEN "KeyboardInterrupt" ELSE "CommandExecutionError"

CmdSent(o, cmd) == IF o = "notsent" THEN <<>> ELSE <<cmd>>

\* what a call that did not return has logged: nothing without a channel
CmdLog(o, text) == IF o = "notsent" THEN {} ELSE LogCommand(text)

\* one inventory call of step 1 and the exception it raised (NoExc: it returned)
NetBoxCall(call, e) == [call |-> call, raised |-> e]

\* Step 1: _step_retrieve_netbox_config
Step1 ==
    /\ pc = "step1"
    /\ executed' = Append(executed, 1)
    /\ \/ \E e \in {"NetBoxClientError", "KeyboardInterrupt"} :
            \* NetBoxClient(...) raises
            /\ netboxCalls' = <<NetBoxCall("NetBoxClient", e)>>
            /\ Fail(1, Step1Raises(e), state)
            /\ UNCHANGED <<netbox_client, device_config, expected_serial>>
       \/ \E e \in {"DeviceNotFoundError", "ConfigurationNotFoundError",
                    "NetBoxClientError", "AttributeError", "KeyboardInterrupt"} :
            \* get_device_config raises
            /\ netbox_client' = TRUE
            /\ netboxCalls' = <<NetBoxCall("NetBoxClient", NoExc),
                                NetBoxCall("get_device_config", e)>>
            /\ Fail(1, Step1Raises(e), "NETBOX_CONNECTED")
            /\ UNCHANGED <<device_config, expected_serial>>
       \/ \E cfg \in Configs :
          \E e \in {"DeviceNotFoundError", "NetBoxClientError", "KeyboardInterrupt"} :
            \* get_device_serial raises
            /\ netbox_client' = TRUE
            /\ netboxCalls' = <<NetBoxCall("NetBoxClient", NoExc),
                                NetBoxCall("get_device_config", NoExc),
                                NetBoxCall("get_device_serial", e)>>
            /\ device_config' = cfg
            /\ Fail(1, Step1Raises(e), "NETBOX_CONNECTED")
            /\ UNCHANGED expected_serial
       \/ \E cfg \in Configs : \E s \in ExpectedSerials :
            /\ netbox_client' = TRUE
            /\ netboxCalls' = <<NetBoxCall("NetBoxClient", NoExc),
                                NetBoxCall("get_device_config", NoExc),
                                NetBoxCall("get_device_serial", NoExc)>>
            /\ device_config' = cfg
            /\ expected_serial' = s
            /\ state' = "CONFIG_RETRIEVED"
            /\ history' = history \o <<"NETBOX_CONNECTED", "CONFIG_RETRIEVED">>
            /\ pc' = "step2"
            /\ UNCHANGED <<exc, failedStep, stateAtFailure, stepExc>>
    /\ UNCHANGED <<ssh_manager, console_manager, actual_serial, config_filename,
                   result, report, sentCmds, jumpCmds, cleanupRuns, closeRuns,
                   consoleCloses, sshCloses, step_output, staged_file, exit_code,
                   check_results, failed_list, log>>
    /\ UNCHANGED <<runVars, connVars, closeVars, parseVars, auxVars>>

\* Step 2: _step_create_ftp_file
Step2 ==
    /\ pc = "step2"
    /\ executed' = Append(executed, 2)
    /\ config_filename' = TRUE
    /\ ssh_manager' = TRUE
    /\ \/ \E e \in {"ConnectionError", "KeyboardInterrupt"} :
            \* ssh_manager.connect() raises
            /\ Fail(2, Step2Raises(e), state)
            /\ UNCHANGED <<jumpCmds, staged_file, exit_code>>
       \/ \E e \in {"CommandExecutionError", "KeyboardInterrupt"} :
            \* create_remote_file raises
            /\ Fail(2, Step2Raises(e), state)
            /\ UNCHANGED <<jumpCmds, staged_file, exit_code>>
       \/ \E e \in {"CommandExecutionError", "KeyboardInterrupt"} :
          \E f \in StagedFiles :
            \* execute_command("ls -lh ...") raises
            /\ jumpCmds' = Append(jumpCmds, "ls")
            /\ staged_file' = f
            /\ Fail(2, Step2Raises(e), state)
            /\ UNCHANGED exit_code
       \/ \E f \in StagedFiles :
            \* execute_command("ls -lh ...") returns its exit code
            /\ jumpCmds' = Append(jumpCmds, "ls")
            /\ staged_file' = f
            /\ exit_code' = LsExitCode(f)
            /\ IF exit_code' = 0
               THEN Continue("step3", "FTP_FILE_CREATED")
               ELSE Fail(2, Step2Raises("CommandExecutionError"), state)
    /\ UNCHANGED <<netbox_client, netboxCalls, console_manager, device_config, expected_serial,
                   actual_serial, result, report, sentCmds, cleanupRuns, closeRuns,
                   consoleCloses, sshCloses, step_output, check_results, failed_list,
                   log>>
    /\ UNCHANGED <<runVars, connVars, closeVars, parseVars, auxVars>>

\* Step 3: _step_connect_to_console (with _enter_enable_mode)
Step3 ==
    /\ pc = "step3"
    /\ executed' = Append(executed, 3)
    /\ console_manager' = TRUE
    /\ \/ \E e \in {"ConnectionError", "CommandExecutionError", "KeyboardInterrupt"} :
            \* connect() or connect_to_console() raises
            Fail(3, Step3Raises(e), state)
       \/ \E e \in {"OSError", "ProvisioningError", "KeyboardInterrupt"} :
            \* channel.send raises, or _enter_enable_mode fails
            Fail(3, Step3Raises(e), "CONSOLE_CONNECTED")
       \/ Continue("step4", "CONSOLE_CONNECTED")
    /\ UNCHANGED <<netbox_client, netboxCalls, ssh_manager, device_config, expected_serial,
                   actual_serial, config_filename, result, report, sentCmds, jumpCmds,
                   cleanupRuns, closeRuns, consoleCloses, sshCloses, step_output,
                   staged_file, exit_code, check_results, failed_list, log>>
    /\ UNCHANGED <<runVars, connVars, closeVars, parseVars, auxVars>>

\* Step 4: _step_verify_device
Step4 ==
    /\ pc = "step4"
    /\ executed' = Append(executed, 4)
    /\ \/ \E o \in CmdOutcomes \ {"returned"} :
            \* 'terminal length 0' does not return
            /\ sentCmds' = sentCmds \o CmdSent(o, "terminal length 0")
            /\ log' = log \cup CmdLog(o, {"terminal length 0"})
            /\ step_output' = NoOutput
            /\ Fail(4, Step4Raises(CmdExc(o)), state)
            /\ UNCHANGED actual_serial
       \/ \E o \in CmdOutcomes \ {"returned"} :
            \* 'show version' does not return
            /\ sentCmds' = sentCmds \o <<"terminal length 0">> \o CmdSent(o, "show version")
            /\ log' = log \cup LogCommand({"terminal length 0"})
                           \cup LogCommandOutput({})
                           \cup CmdLog(o, {"show version"})
            /\ step_output' = NoOutput
            /\ Fail(4, Step4Raises(CmdExc(o)), state)
            /\ UNCHANGED actual_serial
       \/ \E out \in ShowVersionOutputs :
            /\ sentCmds' = sentCmds \o <<"terminal length 0", "show version">>
            /\ log' = log \cup LogCommand({"terminal length 0", "show version"})
                           \cup LogCommandOutput({})
            /\ step_output' = [cmd |-> "show version", text |-> out]
            /\ actual_serial' = SerialIn[out]
            /\ IF actual_serial' = None
               THEN Fail(4, Step4Raises("DeviceVerificationError"), state)
               ELSE IF ~SerialMatches(expected_serial, actual_serial')
               THEN Fail(4, Step4Raises("DeviceVerificationError"), state)
               ELSE Continue("step5", "DEVICE_VERIFIED")
    /\ UNCHANGED <<netbox_client, netboxCalls, ssh_manager, console_manager, device_config,
                   expected_serial, config_filename, result, report, jumpCmds,
                   cleanupRuns, closeRuns, consoleCloses, sshCloses,
                   staged_file, exit_code, check_results, failed_list>>
    /\ UNCHANGED <<runVars, connVars, closeVars, parseVars, auxVars>>

\* Step 5: _step_copy_config_to_flash
Step5 ==
    /\ pc = "step5"
    /\ executed' = Append(executed, 5)
    /\ \/ \E o \in CmdOutcomes \ {"returned"} :
            /\ sentCmds' = sentCmds \o CmdSent(o, "copy ftp flash")
            /\ log' = log \cup { LogEntry("INFO", "_step_copy_config_to_flash:459",
                                          copy_command_log) }
                           \cup CmdLog(o, copy_command)
            /\ step_output' = NoOutput
            /\ Fail(5, Step5Raises(CmdExc(o)), state)
       \/ \E out \in CopyOutputs :
            /\ sentCmds' = Append(sentCmds, "copy ftp flash")
            /\ step_output' = [cmd |-> "copy ftp flash", text |-> out]
            /\ log' = log \cup { LogEntry("INFO", "_step_copy_config_to_flash:459",
                                          copy_command_log) }
                           \cup LogCommand(copy_command)
                           \cup LogCommandOutput(CopyText(out))
                           \cup CopyVerdictLog(out)
            /\ CASE CopyVerdict(out.found) = "success" ->
                        Continue("step6", "CONFIG_COPIED_TO_FLASH")
                 [] CopyVerdict(out.found) = "error" ->
                        Fail(5, Step5Raises("ConfigurationDeploymentError"), state)
                 [] OTHER -> Continue("step6", state)
    /\ UNCHANGED <<netbox_client, netboxCalls, ssh_manager, console_manager, device_config,
                   expected_serial, actual_serial, config_filename, result, report,
                   jumpCmds, cleanupRuns, closeRuns, consoleCloses, sshCloses,
                   staged_file, exit_code, check_results, failed_list>>
    /\ UNCHANGED <<runVars, connVars, closeVars, parseVars, auxVars>>

\* _verify_configuration_applied: what one marker's check can come to
CheckOutcomes == {"present", "absent", "error", "interrupted"}

\* the first check that is interrupted, Len(r) + 1 when none is
StopAt(r) ==
    IF \E i \in 1..Len(r) : r[i] = "interrupted"
    THEN CHOOSE i \in 1..Len(r) :
            /\ r[i] = "interrupted"
            /\ \A j \in 1..(i-1) : r[j] # "interrupted"
    ELSE Len(r) + 1

\* the check commands issued for markers 1..k
VerifyCmds(kinds, k) == [i \in 1..k |-> VerifyCmd(kinds[i])]

\* a pass that fails only when no marker at all was found
FailedItems_OnlyWhenAllMissing(r) ==
    IF \A i \in 1..Len(r) : r[i] = "absent"
    THEN { i \in 1..Len(r) : i < StopAt(r) }
    ELSE {}

\* a pass that fails when there is no marker to check
FailedItems_EmptyListFails(r) ==
    { i \in 0..Len(r) :
        IF Len(r) = 0 THEN TRUE
        ELSE i >= 1 /\ i < StopAt(r) /\ r[i] = "absent" }

\* a pass that takes a check that raised for a missing marker
FailedItems_CountsErrors(r) ==
    { i \in 1..Len(r) : i < StopAt(r) /\ r[i] \in {"absent", "error"} }

\* failed_items: the markers checked whose value is not in the output
FailedItems(r) == { i \in 1..Len(r) : i < StopAt(r) /\ r[i] = "absent" }

\* Step 6: _step_apply_configuration (with _verify_configuration_applied)
Step6 ==
    /\ pc = "step6"
    /\ executed' = Append(executed, 6)
    /\ \/ \E o \in CmdOutcomes \ {"returned"} :
            /\ sentCmds' = sentCmds \o CmdSent(o, "copy running-config")
            /\ log' = log \cup CmdLog(o, {"copy running-config"})
            /\ step_output' = NoOutput
            /\ Fail(6, Step6Raises(CmdExc(o)), state)
            /\ UNCHANGED <<check_results, failed_list>>
       \/ \E out \in ApplyOutputs :
            LET applied == Append(sentCmds, "copy running-config")
                st == IF ApplySucceeded(out) THEN "CONFIG_APPLIED" ELSE state
            IN  /\ step_output' = [cmd |-> "copy running-config", text |-> out]
                /\ log' = log \cup LogCommand({"copy running-config"})
                               \cup LogCommandOutput({})
                /\ IF ApplyHasError(out)
                   THEN /\ sentCmds' = applied
                        /\ Fail(6, Step6Raises("ConfigurationDeploymentError"), state)
                        /\ UNCHANGED <<check_results, failed_list>>
                   ELSE \/ \* interrupted in time.sleep(10)
                           /\ sentCmds' = applied
                           /\ Fail(6, Step6Raises("KeyboardInterrupt"), st)
                           /\ UNCHANGED <<check_results, failed_list>>
                        \/ \E r \in [1..Len(device_config) -> CheckOutcomes] :
                             LET k == IF StopAt(r) > Len(r) THEN Len(r) ELSE StopAt(r)
                             IN /\ sentCmds' = applied \o VerifyCmds(device_config, k)
                                /\ check_results' = [ran |-> TRUE, r |-> SubSeq(r, 1, k)]
                                /\ IF StopAt(r) <= Len(r)
                                   THEN /\ Fail(6, Step6Raises("KeyboardInterrupt"), st)
                                        /\ UNCHANGED failed_list
                                   ELSE IF FailedItems(r) # {}
                                   THEN /\ Fail(6, Step6Raises("ConfigurationDeploymentError"), st)
                                        /\ failed_list' = FailedItems(r)
                                   ELSE /\ Continue("complete", st)
                                        /\ UNCHANGED failed_list
    /\ UNCHANGED <<netbox_client, netboxCalls, ssh_manager, console_manager, device_config,
                   expected_serial, actual_serial, config_filename, result, report,
                   jumpCmds, cleanupRuns, closeRuns, consoleCloses, sshCloses,
                   staged_file, exit_code>>
    /\ UNCHANGED <<runVars, connVars, closeVars, parseVars, auxVars>>

\* provision_device, after step 6: mark as completed, return True
MarkCompleted ==
    /\ pc = "complete"
    /\ state' = "COMPLETED"
    /\ history' = Append(history, "COMPLETED")
    /\ pc' = "finally"
    /\ UNCHANGED <<netbox_client, netboxCalls, ssh_manager, console_manager, device_config,
                   expected_serial, actual_serial, config_filename, exc, result, report,
                   sentCmds, jumpCmds, executed, failedStep, stateAtFailure,
                   cleanupRuns, closeRuns, consoleCloses, sshCloses, stepExc,
                   step_output, staged_file, exit_code, check_results, failed_list,
                   log>>
    /\ UNCHANGED <<runVars, connVars, closeVars, parseVars, auxVars>>

\* provision_device, "except Exception": set FAILED, log the error, _cleanup(),
\* raise ProvisioningError
ExceptHandler ==
    /\ pc = "except"
    /\ state' = "FAILED"
    /\ history' = Append(history, "FAILED")
    /\ log' = log \cup { LogEntry("ERROR", "provision_device:201",
                                  ExcMessage(failedStep, exc, step_output)) }
    /\ cleanupRuns' = cleanupRuns + 1
    /\ jumpCmds' = IF CleanupRemovesFile(state', ssh_manager, config_filename)
                   THEN Append(jumpCmds, "rm")
                   ELSE jumpCmds
    /\ exc' = "ProvisioningError"
    /\ pc' = "finally"
    /\ UNCHANGED <<netbox_client, netboxCalls, ssh_manager, console_manager, device_config,
                   expected_serial, actual_serial, config_filename, result, report,
                   sentCmds, executed, failedStep, stateAtFailure,
                   closeRuns, consoleCloses, sshCloses, stepExc, step_output,
                   staged_file, exit_code, check_results, failed_list>>
    /\ UNCHANGED <<runVars, connVars, closeVars, parseVars, auxVars>>

\* provision_device, "finally": _close_connections(), then return or raise
Finally ==
    /\ pc = "finally"
    /\ closeRuns' = closeRuns + 1
    /\ \E consoleCloseRaised \in (IF console_manager THEN BOOLEAN ELSE {FALSE}) :
          /\ consoleCloses' = IF console_manager THEN consoleCloses + 1 ELSE consoleCloses
          /\ sshCloses' = IF ClosesSSH(ssh_manager, consoleCloseRaised)
                          THEN sshCloses + 1 ELSE sshCloses
    /\ result' = IF exc = NoExc THEN "True" ELSE exc
    /\ pc' = "returned"
    /\ UNCHANGED <<state, history, report, netbox_client, netboxCalls, ssh_manager, console_manager, device_config,
                   expected_serial, actual_serial, config_filename, exc,
                   sentCmds, jumpCmds, executed, failedStep, stateAtFailure,
                   cleanupRuns, stepExc, step_output, staged_file, exit_code,
                   check_results, failed_list, log>>
    /\ UNCHANGED <<runVars, connVars, closeVars, parseVars, auxVars>>

\* the step-4 failure is the serial mismatch
SerialMismatch ==
    /\ failedStep = 4
    /\ stepExc = "DeviceVerificationError"
    /\ actual_serial # None

\* str(e) of the ProvisioningError main prints, as far as it tells failures apart
ErrorText ==
    IF SerialMismatch THEN "Serial number mismatch!"
    ELSE IF failedStep = 4 /\ stepExc = "DeviceVerificationError"
    THEN "Failed to extract serial number"
    ELSE "other"

\* main, from "success = orchestrator.provision_device()" on: what is printed
\* (the banner, the error text, the get_status() dictionary's state) and the
\* value returned to sys.exit
MainReport(res, st, text) ==
    IF res = "True"
    THEN [banner |-> "SUCCESS!", error |-> "none", status |-> StateValue(st), exit |-> 0]
    ELSE IF res = "False"
    THEN [banner |-> "FAILED!", error |-> "none", status |-> StateValue(st), exit |-> 1]
    ELSE IF IsInstance(res, "ProvisioningError")
    THEN [banner |-> "PROVISIONING FAILED!", error |-> text, status |-> <<>>, exit |-> 1]
    ELSE IF res = "KeyboardInterrupt"
    THEN [banner |-> "Provisioning interrupted by user", error |-> "none",
          status |-> <<>>, exit |-> 1]
    ELSE [banner |-> "UNEXPECTED ERROR!", error |-> text, status |-> <<>>, exit |-> 1]

\* main reports the outcome of provision_device and returns
Main ==
    /\ pc = "returned"
    /\ report = NoReport
    /\ report' = MainReport(result, state, ErrorText)
    /\ UNCHANGED <<pc, state, history, netbox_client, netboxCalls, ssh_manager,
                   console_manager, device_config, expected_serial, actual_serial, config_filename,
                   exc, result, sentCmds, jumpCmds, executed, failedStep,
                   stateAtFailure, cleanupRuns, closeRuns, consoleCloses, sshCloses,
                   stepExc, step_output, staged_file, exit_code, check_results,
                   failed_list, log>>
    /\ UNCHANGED <<runVars, connVars, closeVars, parseVars, auxVars>>

Next ==
    \/ Step1
    \/ Step2
    \/ Step3
    \/ Step4
    \/ Step5
    \/ Step6
    \/ MarkCompleted
    \/ ExceptHandler
    \/ Finally
    \/ Main

Spec == Init /\ [][Next]_vars

----------------------------------------------------------------------------
(* ConsoleManager.execute_device_command *)

\* time.sleep(1) at the head of the loop
PollInterval == 1

\* max_pagination
max_pagination == 50

\* the clocks kept for the properties stop counting here
SinceCap == MaxTimeout + 3

IdleCap == MaxWait + 1

Min(a, b) == IF a < b THEN a ELSE b

\* "free": the device sends what it likes; "pager": every chunk holds a pager marker
DevModes == {"free", "pager"}

Chunks(mode, exp) ==
    { c \in [data : BOOLEAN, more : BOOLEAN, confirm : BOOLEAN, hit : BOOLEAN] :
        /\ (c.more \/ c.confirm \/ c.hit) => c.data
        /\ c.hit => exp
        /\ mode = "pager" => c.more }

\* the pagination branch without its ceiling
PaginationFires_NoCeiling(hp, count, chunk) == hp /\ chunk.more

\* the pagination branch giving way to a confirmation prompt in the chunk
PaginationFires_AfterConfirm(hp, count, chunk) ==
    hp /\ count < max_pagination /\ chunk.more /\ ~chunk.confirm

\* the pagination branch is taken for this chunk
PaginationFires(hp, count, chunk) ==
    hp /\ count < max_pagination /\ chunk.more

\* the confirmation branch without the once-only flag
ConfirmFires_Repeats(ac, sent, chunk) == ac /\ chunk.confirm

\* the confirmation branch sends Enter for this chunk
ConfirmFires(ac, sent, chunk) ==
    ac /\ ~sent /\ chunk.confirm

\* "if time.time() - start_time > timeout"
TimedOut(e, t) == e > t

\* the wait compared with >= instead of >
WaitExpired_AtWaitTime(exp, e, w) == ~exp /\ e >= w

\* the wait applied to calls with expect too
WaitExpired_IgnoresExpect(exp, e, w) == e > w

\* "if not expect and time.time() - start_time > wait_time"
WaitExpired(exp, e, w) == ~exp /\ e > w

\* the arguments of the call and the device it talks to
RunParams ==
    /\ wait_time \in 1..MaxWait
    /\ timeout \in 1..MaxTimeout
    /\ expect \in BOOLEAN
    /\ handle_pagination \in BOOLEAN
    /\ auto_confirm \in BOOLEAN
    /\ rpc = "idle"
    /\ elapsed = 0 /\ sinceSend = 0 /\ idleTicks = 0
    /\ pagination_count = 0 /\ confirmation_sent = FALSE
    /\ spacesSent = 0 /\ confirmsSent = 0
    /\ expectSeen = FALSE /\ lastChunk = NoChunk /\ reason = "none"

RunInit ==
    WfInit /\ AuxIdle /\ ConnIdle /\ CloseIdle /\ ParseIdle /\ RunParams /\ devMode \in DevModes

PagerInit ==
    WfInit /\ AuxIdle /\ ConnIdle /\ CloseIdle /\ ParseIdle /\ RunParams /\ devMode = "pager"

\* execute_device_command up to the loop: clear the buffer, send the command,
\* start_time = time.time(); or the send raises
SendCommand ==
    /\ rpc = "idle"
    /\ \/ /\ rpc' = "loop"
          /\ reason' = "none"
       \/ /\ rpc' = "returned"
          /\ reason' = "raised"
    /\ UNCHANGED <<wait_time, timeout, expect, handle_pagination, auto_confirm,
                   devMode, elapsed, sinceSend, idleTicks, pagination_count,
                   confirmation_sent, spacesSent, confirmsSent, expectSeen,
                   lastChunk>>
    /\ UNCHANGED <<wfVars, connVars, closeVars, parseVars, auxVars>>

\* one iteration of "while True"
Poll ==
    /\ rpc = "loop"
    /\ \E chunk \in Chunks(devMode, expect) : \E sendOk \in BOOLEAN :
        LET e1 == elapsed + PollInterval
            seen == expectSeen \/ chunk.hit
        IN
        /\ lastChunk' = chunk
        /\ expectSeen' = seen
        /\ sinceSend' = Min(sinceSend + PollInterval, SinceCap)
        /\ idleTicks' = IF chunk.data THEN 0 ELSE Min(idleTicks + PollInterval, IdleCap)
        /\ IF PaginationFires(handle_pagination, pagination_count, chunk)
           THEN \* send ' ', count it, restart the clock, continue
                /\ IF sendOk
                   THEN /\ spacesSent' = spacesSent + 1
                        /\ pagination_count' = pagination_count + 1
                        /\ elapsed' = 0
                        /\ rpc' = "loop"
                        /\ reason' = "none"
                   ELSE /\ rpc' = "returned"
                        /\ reason' = "raised"
                        /\ elapsed' = e1
                        /\ UNCHANGED <<spacesSent, pagination_count>>
                /\ UNCHANGED <<confirmation_sent, confirmsSent>>
           ELSE LET fires == ConfirmFires(auto_confirm, confirmation_sent, chunk)
                    e2 == IF fires THEN 0 ELSE e1
                IN
                /\ UNCHANGED <<spacesSent, pagination_count>>
                /\ IF fires /\ ~sendOk
                   THEN /\ rpc' = "returned"
                        /\ reason' = "raised"
                        /\ elapsed' = e1
                        /\ UNCHANGED <<confirmation_sent, confirmsSent>>
                   ELSE /\ sendOk
                        /\ confirmsSent' = IF fires THEN confirmsSent + 1 ELSE confirmsSent
                        /\ confirmation_sent' = (confirmation_sent \/ fires)
                        /\ IF expect /\ seen
                           THEN /\ rpc' = "returned"
                                /\ reason' = "expect"
                                /\ elapsed' = e2
                           ELSE IF TimedOut(e2, timeout)
                           THEN /\ rpc' = "returned"
                                /\ reason' = "timeout"
                                /\ elapsed' = e2
                           ELSE IF WaitExpired(expect, e2, wait_time)
                           THEN IF chunk.data
                                THEN /\ rpc' = "loop"
                                     /\ reason' = "none"
                                     /\ elapsed' = 0
                                ELSE /\ rpc' = "returned"
                                     /\ reason' = "quiescent"
                                     /\ elapsed' = e2
                           ELSE /\ rpc' = "loop"
                                /\ reason' = "none"
                                /\ elapsed' = e2
    /\ UNCHANGED <<wait_time, timeout, expect, handle_pagination, auto_confirm, devMode>>
    /\ UNCHANGED <<wfVars, connVars, closeVars, parseVars, auxVars>>

RunNext ==
    \/ SendCommand
    \/ Poll

SpecRun == RunInit /\ [][RunNext]_vars

\* the call against an arbitrary device, the loop progressing
FairRunSpec == RunInit /\ [][RunNext]_vars /\ WF_vars(Poll) /\ WF_vars(SendCommand)

\* the loop keeps polling: time.sleep(1) returns and the iteration completes
PagerFairSpec == PagerInit /\ [][RunNext]_vars /\ WF_vars(Poll) /\ WF_vars(SendCommand)

----------------------------------------------------------------------------
(* SSHManager.connect and ConsoleManager.connect *)

Managers == {"SSHManager", "ConsoleManager"}

\* the retries argument: the default is 3, any int is accepted
RetryCounts == -1..MaxRetries

RetryDelays == 0..MaxDelay

\* what one call of paramiko's client.connect() can come to
ConnectOutcomes ==
    {"ok", "AuthenticationException", "NoValidConnectionsError", "SSHException",
     "TimeoutError", "KeyboardInterrupt"}

\* a connect that retries whatever exception the attempt raised
SSHConnectHandler_RetriesAll(e) ==
    IF IsInstance(e, "Exception") THEN "retry" ELSE "propagate"

\* SSHManager.connect: the except clauses, in their order
SSHConnectHandler(e) ==
    IF IsInstance(e, "AuthenticationException") THEN "raise"
    ELSE IF IsInstance(e, "NoValidConnectionsError") THEN "retry"
    ELSE IF IsInstance(e, "SSHException") THEN "raise"
    ELSE IF IsInstance(e, "Exception") THEN "raise"
    ELSE "propagate"

\* ConsoleManager.connect: its single "except Exception" clause
ConsoleConnectHandler(e) ==
    IF IsInstance(e, "Exception") THEN "retry" ELSE "propagate"

ConnectHandler(m, e) ==
    IF m = "SSHManager" THEN SSHConnectHandler(e) ELSE ConsoleConnectHandler(e)

\* a retry branch that sleeps after the last attempt as well
RetryAgain_Always(a, n) == TRUE

\* "if attempt < retries": sleep and try again, else raise
RetryAgain(a, n) == a < n

Left(kind, names) == [kind |-> kind, names |-> names]

\* connect(retries, retry_delay) is called on a fresh manager
ConnInit ==
    /\ WfInit /\ AuxIdle /\ RunIdle /\ CloseIdle /\ ParseIdle
    /\ cpc = "try"
    /\ manager \in Managers
    /\ retries \in RetryCounts
    /\ retry_delay \in RetryDelays
    /\ attempt = 1
    /\ connected = FALSE
    /\ tries = <<>>
    /\ sleeps = <<>>
    /\ raised = NotLeft

\* one iteration of "for attempt in range(1, retries + 1)" up to its sleep
Attempt ==
    /\ cpc = "try"
    /\ attempt <= retries
    /\ \E o \in ConnectOutcomes :
          /\ tries' = Append(tries, o)
          /\ IF o = "ok"
             THEN /\ connected' = TRUE
                  /\ raised' = Left("returned", {})
                  /\ cpc' = "done"
             ELSE /\ UNCHANGED connected
                  /\ CASE ConnectHandler(manager, o) = "raise" ->
                            /\ raised' = Left("ConnectionError", {})
                            /\ cpc' = "done"
                       [] ConnectHandler(manager, o) = "retry" ->
                            IF RetryAgain(attempt, retries)
                            THEN /\ cpc' = "sleep"
                                 /\ UNCHANGED raised
                            ELSE /\ raised' = Left("ConnectionError", {retries})
                                 /\ cpc' = "done"
                       [] OTHER ->
                            /\ raised' = Left(o, {})
                            /\ cpc' = "done"
    /\ UNCHANGED <<manager, retries, retry_delay, attempt, sleeps>>
    /\ UNCHANGED <<wfVars, runVars, closeVars, parseVars, auxVars>>

\* time.sleep(retry_delay), then the next iteration
Sleep ==
    /\ cpc = "sleep"
    /\ sleeps' = Append(sleeps, retry_delay)
    /\ \/ /\ attempt' = attempt + 1
          /\ cpc' = "try"
          /\ UNCHANGED raised
       \/ \* interrupted while sleeping
          /\ raised' = Left("KeyboardInterrupt", {})
          /\ cpc' = "done"
          /\ UNCHANGED attempt
    /\ UNCHANGED <<manager, retries, retry_delay, connected, tries>>
    /\ UNCHANGED <<wfVars, runVars, closeVars, parseVars, auxVars>>

\* the range is used up: the for statement ends and connect returns None
FallThrough ==
    /\ cpc = "try"
    /\ attempt > retries
    /\ raised' = Left("returned", {})
    /\ cpc' = "done"
    /\ UNCHANGED <<manager, retries, retry_delay, attempt, connected, tries, sleeps>>
    /\ UNCHANGED <<wfVars, runVars, closeVars, parseVars, auxVars>>

ConnNext ==
    \/ Attempt
    \/ Sleep
    \/ FallThrough

SpecConnect == ConnInit /\ [][ConnNext]_vars

----------------------------------------------------------------------------
(* SSHManager.close and ConsoleManager.close *)

\* the calls made on one manager object
MaxCalls == 4

\* "if self.channel:" / "if self.client:" taken as always true
Truthy_Always(obj) == TRUE

\* "if self.channel:" / "if self.client:": the attribute holds an object
Truthy(obj) == obj # "None"

ManagerCall(op, e) == [op |-> op, raised |-> e]

CloseInit ==
    /\ WfInit /\ AuxIdle /\ RunIdle /\ ParseIdle /\ CloseIdle
    /\ cpc = "idle"
    /\ manager \in Managers
    /\ retries = 3 /\ retry_delay = 5
    /\ attempt = 0
    /\ connected = FALSE
    /\ tries = <<>>
    /\ sleeps = <<>>
    /\ raised = NotLeft

\* connect(): every attempt assigns a new SSHClient to self.client before
\* client.connect() is called; _connected is set when that call returns
Connect ==
    /\ Len(calls) < MaxCalls
    /\ \E attempted \in BOOLEAN : \E ok \in BOOLEAN :
          /\ attempted \/ ~ok
          /\ client' = IF ~attempted THEN client
                        ELSE IF ok THEN "open" ELSE "created"
          /\ connected' = IF ok THEN TRUE ELSE connected
          /\ calls' = Append(calls, ManagerCall("connect",
                                 IF ok \/ ~attempted THEN NoExc ELSE "ConnectionError"))
    /\ UNCHANGED <<channel, beforeClose>>
    /\ UNCHANGED <<cpc, manager, retries, retry_delay, attempt, tries, sleeps, raised>>
    /\ UNCHANGED <<wfVars, runVars, parseVars, auxVars>>

\* ConsoleManager.connect_to_console(): refused without a connection; else the
\* channel is assigned by invoke_shell(), and a later send or read may raise
ConnectToConsole ==
    /\ Len(calls) < MaxCalls
    /\ manager = "ConsoleManager"
    /\ IF ~connected \/ ~Truthy(client)
       THEN /\ calls' = Append(calls, ManagerCall("connect_to_console",
                                                  "CommandExecutionError"))
            /\ UNCHANGED channel
       ELSE \/ \* invoke_shell() raises
               /\ calls' = Append(calls, ManagerCall("connect_to_console",
                                                     "CommandExecutionError"))
               /\ UNCHANGED channel
            \/ \E e \in {NoExc, "CommandExecutionError"} :
               /\ channel' = "open"
               /\ calls' = Append(calls, ManagerCall("connect_to_console", e))
    /\ UNCHANGED <<client, beforeClose>>
    /\ UNCHANGED connVars
    /\ UNCHANGED <<wfVars, runVars, parseVars, auxVars>>

\* close(): the channel (ConsoleManager only), then the client; closing an
\* SSHClient or a Channel leaves it closed, whatever state it was in
Close ==
    /\ Len(calls) < MaxCalls
    /\ LET onChannel == manager = "ConsoleManager" /\ Truthy(channel)
           channelRaises == onChannel /\ channel = "None"
           onClient == ~channelRaises /\ Truthy(client)
           clientRaises == onClient /\ client = "None"
       IN  /\ channel' = IF onChannel /\ ~channelRaises THEN "closed" ELSE channel
           /\ client' = IF onClient /\ ~clientRaises THEN "closed" ELSE client
           /\ connected' = IF onClient /\ ~clientRaises THEN FALSE ELSE connected
           /\ calls' = Append(calls, ManagerCall("close",
                                  IF channelRaises \/ clientRaises
                                  THEN "AttributeError" ELSE NoExc))
    /\ beforeClose' = <<client, channel, connected>>
    /\ UNCHANGED <<cpc, manager, retries, retry_delay, attempt, tries, sleeps, raised>>
    /\ UNCHANGED <<wfVars, runVars, parseVars, auxVars>>

CloseNext ==
    \/ Connect
    \/ ConnectToConsole
    \/ Close

SpecClose == CloseInit /\ [][CloseNext]_vars

----------------------------------------------------------------------------
(* ConsoleManager.parse_show_version *)

\* the texts the extractor is given: up to MaxSampleLines lines, each a model
\* line or a serial line with a serial-like token or a placeholder
SampleForms == {"model", "system", "board"}

SampleTokens == { <<"A","b">>, <<"b","b">>, <<"N","o","n","e">> }

SampleLines ==
    { l \in [form : SampleForms, tok : SampleTokens] :
        l.form = "model" => l.tok = <<"b","b">> }

SampleTexts ==
    { Join(ls) : ls \in UNION { [1..n -> SampleLines] : n \in 0..MaxSampleLines } }

\* the vendor samples of the extraction test: a Catalyst output with the model
\* and the system serial number, an IOS output with the processor board ID,
\* an output with a bare "Serial Number:" line
VendorSamples ==
    { Join(<< [form |-> "model", tok |-> <<"b","b">>],
              [form |-> "system", tok |-> <<"A","b">>] >>),
      Join(<< [form |-> "board", tok |-> <<"A","b">>] >>),
      <<"Serial", " ", "Num", "ber", ":", " ", "S", "N", "1", "\n">> }

\* what the pager and the terminal leave in the output: the pager banner in
\* either spacing, runs of backspaces, ANSI escape sequences (SGR reset,
\* erase line, show cursor)
Artifacts ==
    { MoreBanner, MoreBannerSpaced, <<"BS">>, <<"BS", "BS">>,
      <<"ESC", "[", "0", "m">>, <<"ESC", "[", "K">>,
      <<"ESC", "[", "?", "2", "5", "h">> }

\* text with artifact a inserted after its first i symbols
InsertAt(text, i, a) == SubSeq(text, 1, i) \o a \o SubSeq(text, i + 1, Len(text))

ParseInit ==
    /\ WfInit /\ AuxIdle /\ RunIdle /\ ConnIdle /\ CloseIdle
    /\ ppc = "input"
    /\ sample \in SampleTexts
    /\ noisy = sample
    /\ injected = 0
    /\ extracted = <<None, None>>

NoiseInit ==
    /\ WfInit /\ AuxIdle /\ RunIdle /\ ConnIdle /\ CloseIdle
    /\ ppc = "input"
    /\ sample \in VendorSamples
    /\ noisy = sample
    /\ injected = 0
    /\ extracted = <<None, None>>

\* one more artifact reaches the output, anywhere in it
Inject ==
    /\ ppc = "input"
    /\ injected < MaxNoise
    /\ \E i \in 0..Len(noisy) : \E a \in Artifacts : noisy' = InsertAt(noisy, i, a)
    /\ injected' = injected + 1
    /\ UNCHANGED <<ppc, sample, extracted>>
    /\ UNCHANGED <<wfVars, runVars, connVars, closeVars, auxVars>>

\* parse_show_version is called on the sample and on the output as read
Parse ==
    /\ ppc = "input"
    /\ ppc' = "parsed"
    /\ LET found == parse_show_version(sample)
       IN  extracted' = <<found, IF noisy = sample THEN found
                                 ELSE parse_show_version(noisy)>>
    /\ UNCHANGED <<sample, noisy, injected>>
    /\ UNCHANGED <<wfVars, runVars, connVars, closeVars, auxVars>>

ParseNext == Parse

SpecParse == ParseInit /\ [][ParseNext]_vars

NoiseNext ==
    \/ Inject
    \/ Parse

SpecNoise == NoiseInit /\ [][NoiseNext]_vars

----------------------------------------------------------------------------
(* Properties of provision_device (Spec) *)

ConfigCmds == {"copy ftp flash", "copy running-config"}

ConfigCmdSent == \E i \in 1..Len(sentCmds) : sentCmds[i] \in ConfigCmds

RmAttempts == Cardinality({ i \in 1..Len(jumpCmds) : jumpCmds[i] = "rm" })

\* the states at or after FTP_FILE_CREATED in the workflow order
StagedStates ==
    {"FTP_FILE_CREATED", "CONSOLE_CONNECTED", "DEVICE_VERIFIED",
     "CONFIG_COPIED_TO_FLASH", "CONFIG_APPLIED", "COMPLETED"}

\* C1: the copy-to-flash and activate commands are sent only after the serial
\* extracted from 'show version' was found equal, ignoring case, to the
\* expected serial; on a mismatch neither is sent and the run ends in FAILED.
C1_ConfigOnlyAfterSerialMatch ==
    /\ ConfigCmdSent =>
          /\ actual_serial # None
          /\ Lower(expected_serial) = Lower(actual_serial)
    /\ (pc = "returned" /\ actual_serial # None
        /\ Lower(expected_serial) # Lower(actual_serial)) =>
          /\ state = "FAILED"
          /\ ~ConfigCmdSent

C1_Witness ==
    /\ pc = "returned"
    /\ actual_serial # None
    /\ Lower(expected_serial) # Lower(actual_serial)
    /\ state = "FAILED"
    /\ sentCmds = <<"terminal length 0", "show version">>

\* C2: a run that fails after the staged file was created (the state had
\* reached FTP_FILE_CREATED when the step raised) makes exactly one deletion
\* attempt of the staged file during cleanup.
C2_OneDeletionAfterStaged ==
    (pc = "returned" /\ result = "ProvisioningError"
     /\ stateAtFailure \in StagedStates) => RmAttempts = 1

\* C3: a run that fails before the staged file is created (in step 1, or in
\* step 2 before the file was verified) makes no deletion attempt.
C3_NoDeletionBeforeStaged ==
    (failedStep # 0 /\ stateAtFailure \notin StagedStates) => RmAttempts = 0

C3_Witness ==
    /\ pc = "returned"
    /\ failedStep = 2
    /\ ssh_manager /\ config_filename
    /\ cleanupRuns = 1
    /\ RmAttempts = 0

\* C8: when a step raises, the state moves to FAILED, _cleanup runs, the
\* caller gets a ProvisioningError, and no step after the failing one runs.
C8_FailureHandling ==
    (failedStep # 0 /\ exc # "KeyboardInterrupt") =>
        /\ executed[Len(executed)] = failedStep
        /\ pc \in {"except", "finally", "returned"}
        /\ pc # "except" => (state = "FAILED" /\ cleanupRuns = 1)
        /\ pc = "returned" => result = "ProvisioningError"

C8_Witness ==
    /\ pc = "returned"
    /\ failedStep = 3
    /\ stateAtFailure = "CONSOLE_CONNECTED"
    /\ state = "FAILED"
    /\ cleanupRuns = 1
    /\ result = "ProvisioningError"
    /\ executed = <<1, 2, 3>>

\* C9: _close_connections runs exactly once in every run, after the last
\* step and after cleanup, and every manager that was created gets exactly
\* one close call.
C9_CloseExactlyOnce ==
    /\ closeRuns <= 1
    /\ closeRuns = 1 <=> pc = "returned"
    /\ pc = "returned" =>
          /\ consoleCloses = (IF console_manager THEN 1 ELSE 0)
          /\ sshCloses = (IF ssh_manager THEN 1 ELSE 0)
    /\ pc # "returned" => (consoleCloses = 0 /\ sshCloses = 0)

C9_Witness ==
    /\ pc = "returned"
    /\ failedStep # 0
    /\ console_manager /\ ssh_manager
    /\ closeRuns = 1 /\ consoleCloses = 1 /\ sshCloses = 1

\* C10: an interrupt raised while a step is executing goes through the same
\* path as any other failure: the state moves to FAILED, _cleanup runs and
\* the connections are closed.
C10_InterruptCleansUp ==
    (pc = "returned" /\ result = "KeyboardInterrupt") =>
        /\ state = "FAILED"
        /\ cleanupRuns = 1
        /\ closeRuns = 1

----------------------------------------------------------------------------
(* Properties of execute_device_command (SpecRun, PagerFairSpec) *)

\* C4: whatever the device does, the call returns no later than timeout
\* (plus one poll interval) after the command was sent.
C4_ReturnsByHardTimeout ==
    rpc # "idle" => sinceSend <= timeout + PollInterval

\* C5: with pagination handling on, the call terminates against a device
\* that answers every poll with a pager marker.
C5_PagerStreamTerminates ==
    handle_pagination => <>(rpc = "returned")

C7_ConfirmAtMostOnce ==
    /\ confirmsSent <= 1
    /\ ~auto_confirm => confirmsSent = 0

C7_Witness ==
    /\ auto_confirm
    /\ confirmsSent = 1
    /\ lastChunk.confirm /\ ~lastChunk.more
    /\ elapsed >= PollInterval

----------------------------------------------------------------------------
(* State machine, device verification *)

\* the place of a state in the order of ProvisioningState
StateIndex(st) == IndexIn(st, ProvisioningState)

\* the states at or after DEVICE_VERIFIED on the way to COMPLETED
VerifiedStates ==
    {"DEVICE_VERIFIED", "CONFIG_COPIED_TO_FLASH", "CONFIG_APPLIED", "COMPLETED"}

\* C11: every change of self.state either sets FAILED or moves to a later
\* state in the order initialized .. completed, and FAILED is never left.
C11_StateOnlyMovesForward ==
    [][ /\ state = "FAILED" => state' = "FAILED"
        /\ state' # "FAILED" => StateIndex(state) <= StateIndex(state') ]_vars

C11_Witness ==
    /\ pc = "returned"
    /\ state = "FAILED"
    /\ stateAtFailure = "CONFIG_APPLIED"

\* C12: when parse_show_version finds no serial in the 'show version' output,
\* step 4 is left with DeviceVerificationError, self.state never reaches
\* DEVICE_VERIFIED or later, and neither the copy nor the activate command is
\* sent.
C12_NoSerialFailsVerification ==
    (step_output.cmd = "show version" /\ SerialIn[step_output.text] = None)
        => /\ failedStep = 4
           /\ stepExc = "DeviceVerificationError"
           /\ state \notin VerifiedStates
           /\ ~ConfigCmdSent
           /\ pc \in {"except", "finally", "returned"}

C12_Witness ==
    /\ pc = "returned"
    /\ step_output.cmd = "show version"
    /\ LineCount(step_output.text) = MaxLines
    /\ SerialIn[step_output.text] = None
    /\ stepExc = "DeviceVerificationError"

----------------------------------------------------------------------------
(* Logging, the copy step, the verification pass, the happy path *)

\* C13: no log entry written during a run holds the FTP password, whatever its
\* level and whatever the path the run takes.
C13_PasswordNeverLogged ==
    \A entry \in log : ~entry.secret

\* the output of the copy command holds an explicit error or failure marker
CopyErrorMarked ==
    /\ step_output.cmd = "copy ftp flash"
    /\ step_output.text.found \cap {"error", "fail"} # {}

\* C14: when the output of the copy command holds an error or failure marker,
\* step 5 is left with ConfigurationDeploymentError and the activate command
\* is never sent.
C14_CopyErrorMarkerRaises ==
    CopyErrorMarked
        => /\ failedStep = 5
           /\ stepExc = "ConfigurationDeploymentError"
           /\ pc \in {"except", "finally", "returned"}
           /\ \A i \in 1..Len(sentCmds) : sentCmds[i] # "copy running-config"

\* the verification pass ran to its end
PassCompleted ==
    /\ check_results.ran
    /\ Len(check_results.r) = Len(device_config)
    /\ \A i \in 1..Len(check_results.r) : check_results.r[i] # "interrupted"

\* the markers whose check completed with an output that lacks their value
MissingMarkers ==
    { i \in 1..Len(check_results.r) : check_results.r[i] = "absent" }

C16_HappyPathCompletes ==
    /\ (/\ step_output.cmd = "show version"
        /\ SerialIn[step_output.text] = expected_serial)
            => (pc = "step5" /\ state = "DEVICE_VERIFIED" /\ failedStep = 0)
    /\ (/\ step_output.cmd = "copy ftp flash"
        /\ step_output.text.found \cap {"error", "fail"} = {})
            => (pc = "step6" /\ failedStep = 0)
    /\ (/\ step_output.cmd = "copy running-config"
        /\ "error" \notin step_output.text
        /\ PassCompleted
        /\ MissingMarkers = {}
        /\ \A i \in 1..Len(check_results.r) : check_results.r[i] = "present")
            => /\ failedStep = 0 /\ exc = NoExc
               /\ pc \in {"complete", "finally", "returned"}
               /\ pc = "returned" =>
                    /\ state = "COMPLETED"
                    /\ result = "True"
                    /\ RmAttempts = 0
                    /\ cleanupRuns = 0
                    /\ closeRuns = 1 /\ consoleCloses = 1 /\ sshCloses = 1

C16_Witness ==
    /\ pc = "returned"
    /\ state = "COMPLETED"
    /\ result = "True"
    /\ actual_serial = expected_serial
    /\ step_output.cmd = "copy running-config"
    /\ "error" \notin step_output.text
    /\ PassCompleted
    /\ Len(check_results.r) >= 2
    /\ \A i \in 1..Len(check_results.r) : check_results.r[i] = "present"

\* C20: self.state is FTP_FILE_CREATED or later only when the staged file was
\* found to exist with a size above zero, and a failed verification leaves
\* step 2 with an exception of class ConfigurationDeploymentError.
C20_StagedFileVerified ==
    /\ state \in StagedStates => (exit_code = 0 /\ staged_file = "nonempty")
    /\ (failedStep = 2 /\ exit_code > 0)
            => IsInstance(stepExc, "ConfigurationDeploymentError")

----------------------------------------------------------------------------
(* Properties of connect (SpecConnect) *)

\* failures the retry policy does not count as transient
NonTransient == {"AuthenticationException", "SSHException", "TimeoutError"}

\* transient connectivity failures: unreachable, no route, refused
Transient == {"NoValidConnectionsError"}

\* after a non-transient failure of attempt i: no later attempt, no sleep
\* after it, ConnectionError raised at once
NoRetryAfter(i) ==
    /\ i = Len(tries)
    /\ Len(sleeps) = i - 1
    /\ cpc = "done"
    /\ raised.kind = "ConnectionError"
    /\ ~connected
    /\ i = 1 => sleeps = <<>>

\* C17: SSHManager.connect makes no attempt and sleeps no delay after an
\* attempt that failed with an authentication failure or another
\* non-transient fault: it raises ConnectionError at once, so a failing first
\* attempt is the only one, whatever retries is.
C17_SSHNoRetryOnFatal ==
    manager = "SSHManager"
        => \A i \in 1..Len(tries) : tries[i] \in NonTransient => NoRetryAfter(i)

C17_Witness ==
    /\ manager = "SSHManager"
    /\ retries = MaxRetries
    /\ tries = <<"AuthenticationException">>
    /\ sleeps = <<>>
    /\ raised.kind = "ConnectionError"

\* C18: ConsoleManager.connect makes no attempt and sleeps no delay after an
\* attempt that failed with an authentication failure or another
\* non-transient fault: it raises ConnectionError at once, so a failing first
\* attempt is the only one, whatever retries is.
C18_ConsoleNoRetryOnFatal ==
    manager = "ConsoleManager"
        => \A i \in 1..Len(tries) : tries[i] \in NonTransient => NoRetryAfter(i)

\* C19: a call of connect whose attempts all failed with a transient failure
\* made exactly `retries` attempts, slept retry_delay between consecutive
\* attempts and not after the last, and raised ConnectionError naming
\* `retries`; an attempt that succeeds is the last one, is preceded by one
\* sleep per earlier attempt, and connect returns connected.
C19_RetryUntilExhaustedOrConnected ==
    /\ (/\ cpc = "done"
        /\ raised.kind # "KeyboardInterrupt"
        /\ tries # <<>>
        /\ \A i \in 1..Len(tries) : tries[i] \in Transient)
            => /\ Len(tries) = retries
               /\ Len(sleeps) = retries - 1
               /\ \A j \in 1..Len(sleeps) : sleeps[j] = retry_delay
               /\ raised = Left("ConnectionError", {retries})
               /\ ~connected
    /\ \A k \in 1..Len(tries) : tries[k] = "ok"
            => /\ k = Len(tries)
               /\ Len(sleeps) = k - 1
               /\ cpc = "done"
               /\ raised.kind = "returned"
               /\ connected
    /\ (cpc = "try" /\ \A i \in 1..Len(tries) : tries[i] \in Transient)
            => Len(sleeps) = Len(tries)

C19_Witness ==
    /\ cpc = "done"
    /\ retries = MaxRetries
    /\ Len(tries) = retries
    /\ \A i \in 1..Len(tries) : tries[i] \in Transient
    /\ Len(sleeps) = retries - 1
    /\ raised = Left("ConnectionError", {retries})

(***************************************************************************)
(* Inventory failures, the outcome reported, the return value              *)
(***************************************************************************)

\* what the inventory collaborator raises for "not found" / "not available"
InventoryFailures ==
    {"DeviceNotFoundError", "ConfigurationNotFoundError", "NetBoxClientError"}

\* the positions of netboxCalls where the collaborator reported a failure
InventoryFailedAt ==
    { i \in 1..Len(netboxCalls) : netboxCalls[i].raised \in InventoryFailures }

\* C21: once the inventory collaborator has reported device not found,
\* configuration not available or serial not available, the failing query is
\* the last inventory call and no query was made twice (no retry), step 1 has
\* raised ProvisioningError, the state is not CONFIG_RETRIEVED or anything
\* after it, and nothing was done on the jump host, the console or the device.
C21_InventoryFailureIsFatal ==
    InventoryFailedAt # {} =>
        /\ InventoryFailedAt = {Len(netboxCalls)}
        /\ \A i, j \in 1..Len(netboxCalls) :
              netboxCalls[i].call = netboxCalls[j].call => i = j
        /\ failedStep = 1
        /\ stepExc = "ProvisioningError"
        /\ executed = <<1>>
        /\ state \in {"INITIALIZED", "NETBOX_CONNECTED", "FAILED"}
        /\ ~ssh_manager /\ ~console_manager /\ ~config_filename
        /\ jumpCmds = <<>> /\ sentCmds = <<>>
        /\ sshCloses = 0 /\ consoleCloses = 0

\* a run that ended after the inventory had no serial for the device
C21_Witness ==
    /\ pc = "returned"
    /\ Len(netboxCalls) = 3
    /\ netboxCalls[3] = NetBoxCall("get_device_serial", "NetBoxClientError")
    /\ result = "ProvisioningError"
    /\ state = "FAILED"


\* C22: the outcome main reports tells success, identity mismatch and other
\* failures apart, and for every failed run it shows the workflow state the
\* run had reached when it failed.
C22_OutcomeShowsStateAtFailure ==
    report # NoReport =>
        /\ (report.banner = "SUCCESS!") <=> (result = "True")
        /\ (report.error = "Serial number mismatch!") <=> SerialMismatch
        /\ result # "True" =>
              /\ failedStep # 0
              /\ report.status = StateValue(stateAtFailure)

\* C23: provision_device returns True when the run reached COMPLETED and
\* returns False otherwise.
C23_ReturnsTrueOrFalse ==
    pc = "returned" =>
        /\ result \in {"True", "False"}
        /\ (result = "True") <=> (state = "COMPLETED")

----------------------------------------------------------------------------
(* Properties of close (SpecClose) *)

\* the last n calls on the manager were all close()
LastCallsClose(n) ==
    /\ Len(calls) >= n
    /\ \A i \in (Len(calls) - n + 1)..Len(calls) : calls[i].op = "close"

\* C24: close() raises nothing in whatever state the manager is (never
\* connected, connected without channel, fully open, already closed), it
\* leaves the manager disconnected, and a second close() in a row leaves the
\* manager's fields as the first one left them.
C24_CloseIdempotent ==
    /\ \A i \in 1..Len(calls) : calls[i].op = "close" => calls[i].raised = NoExc
    /\ LastCallsClose(1) =>
          /\ ~connected
          /\ client \in {"None", "closed"}
          /\ channel \in {"None", "closed"}
    /\ LastCallsClose(2) => <<client, channel, connected>> = beforeClose

\* a console manager that was fully open, closed twice
C24_Witness ==
    /\ manager = "ConsoleManager"
    /\ Len(calls) = 4
    /\ calls[1] = ManagerCall("connect", NoExc)
    /\ calls[2] = ManagerCall("connect_to_console", NoExc)
    /\ LastCallsClose(2)
    /\ beforeClose = <<"closed", "closed", FALSE>>

----------------------------------------------------------------------------
(* Properties of parse_show_version (SpecParse, SpecNoise) *)

\* what each pattern captures in the cleaned sample (NoMatch where it fails)
Captures == [p \in 1..PatternCount |-> Search(Clean(sample), Patterns[p])]

\* a capture that is a placeholder or empty once trimmed and lower-cased
IsPlaceholder(tok) == Lower(Strip(tok)) \in Placeholders

\* the patterns of caps whose capture is not a placeholder
Yielding(caps) == { p \in 1..PatternCount : caps[p].ok /\ ~IsPlaceholder(caps[p].cap) }

\* C25: the extractor returns not-found (None, never the empty string) or a
\* token that, trimmed and lower-cased, is not empty and not 'none', 'n/a' or
\* 'unknown'; when a pattern captures a placeholder and a later one captures a
\* proper token, the search goes on and a proper token is returned.
C25_NeverPlaceholder ==
    ppc = "parsed" =>
        LET caps == Captures
            yielding == Yielding(caps)
        IN  /\ extracted[1] # <<>>
            /\ extracted[1] = None \/ ~IsPlaceholder(extracted[1])
            /\ (\E p \in 1..PatternCount : \E q \in yielding :
                    p < q /\ caps[p].ok /\ IsPlaceholder(caps[p].cap))
                  => /\ extracted[1] # None
                     /\ \E r \in yielding : extracted[1] = Strip(caps[r].cap)

\* the system serial line holds a placeholder, the board line a token
C25_Witness ==
    /\ ppc = "parsed"
    /\ LET caps == Captures
       IN  /\ caps[2].ok /\ IsPlaceholder(caps[2].cap)
           /\ caps[4].ok /\ ~IsPlaceholder(caps[4].cap)
           /\ extracted[1] = caps[4].cap

\* C26: when both the combined 'Model Number ... System Serial Number'
\* pattern and the bare 'System Serial Number' pattern capture an accepted
\* token, the combined pattern's capture is returned; in general the result is
\* the capture of the first pattern, in the order of the list, that yields an
\* accepted token, and None when no pattern does.
C26_PatternPriority ==
    ppc = "parsed" =>
        LET cleaned == Clean(sample)
            combined == Search(cleaned, CombinedPattern)
            bare == Search(cleaned, BarePattern)
            caps == Captures
            yielding == Yielding(caps)
        IN  /\ (/\ combined.ok /\ ~IsPlaceholder(combined.cap)
                 /\ bare.ok /\ ~IsPlaceholder(bare.cap))
                    => extracted[1] = Strip(combined.cap)
            /\ IF yielding = {}
               THEN extracted[1] = None
               ELSE \E p \in yielding :
                       /\ \A q \in yielding : p <= q
                       /\ extracted[1] = Strip(caps[p].cap)

\* a sample where the bare pattern alone would give another serial
C26_Witness ==
    /\ ppc = "parsed"
    /\ LET cleaned == Clean(sample)
           combined == Search(cleaned, CombinedPattern)
           bare == Search(cleaned, BarePattern)
       IN  /\ combined.ok
           /\ bare.ok /\ ~IsPlaceholder(bare.cap)
           /\ combined.cap # bare.cap
           /\ extracted[1] = combined.cap

\* C27: for every vendor sample, the serial returned for the output with
\* pager banners, backspace runs or ANSI escape sequences injected anywhere is
\* the serial returned for the sample itself.
C27_NoiseInvariant ==
    ppc = "parsed" => extracted[2] = extracted[1]

----------------------------------------------------------------------------
(* Pagination and termination of execute_device_command (SpecRun, FairRunSpec) *)

\* C28: within one call at most max_pagination (50) spaces are sent, one per
\* pager marker answered; markers read after the ceiling are not answered;
\* with handle_pagination unset no space is sent at all.
C28_PaginationCeiling ==
    /\ spacesSent <= max_pagination
    /\ spacesSent = pagination_count
    /\ ~handle_pagination => spacesSent = 0

\* a pager marker read after the fiftieth space, left unanswered
C28_Witness ==
    /\ rpc = "loop"
    /\ handle_pagination
    /\ spacesSent = max_pagination
    /\ lastChunk.more
    /\ elapsed >= PollInterval

\* the chunk read by this step holds a pager marker, pagination handling is
\* on and the ceiling is not reached
PagerChunkRead ==
    /\ rpc = "loop"
    /\ lastChunk'.more
    /\ handle_pagination
    /\ pagination_count < max_pagination

\* C29: below the ceiling, a chunk with a pager marker gets exactly one
\* space and none of the other checks: no confirmation newline is sent for
\* it and the call does not return on it (it is left only if sending the
\* space raises), whatever else the chunk holds and however long the clock
\* has run.
C29_PaginationFirst ==
    [][PagerChunkRead =>
          /\ confirmsSent' = confirmsSent
          /\ confirmation_sent' = confirmation_sent
          /\ \/ /\ spacesSent' = spacesSent + 1
                /\ rpc' = "loop"
                /\ elapsed' = 0
             \/ /\ spacesSent' = spacesSent
                /\ rpc' = "returned"
                /\ reason' = "raised"]_vars

\* the first marker arrives with a confirmation prompt, past the timeout of
\* a call that expects a string and confirms prompts
C29_Witness ==
    /\ rpc = "loop"
    /\ expect /\ auto_confirm /\ handle_pagination
    /\ timeout = 1
    /\ sinceSend = 2
    /\ spacesSent = 1
    /\ lastChunk.more /\ lastChunk.confirm
    /\ confirmsSent = 0 /\ ~confirmation_sent
    /\ elapsed = 0

\* the breaks that can end a call, by whether it expects a string
Breaks(exp) ==
    IF exp THEN {"expect", "timeout", "raised"} ELSE {"quiescent", "timeout", "raised"}

\* C30: a call against a device that eventually stops sending bytes
\* terminates; a call without expect ends by quiescence or by the timeout,
\* a call with expect when the expected string is in the output or by the
\* timeout (or by an exception, in both cases).
C30_TerminatesWhenDeviceStops ==
    /\ [](rpc = "returned" =>
            /\ reason \in Breaks(expect)
            /\ reason = "expect" => expectSeen)
    /\ (<>[](~lastChunk.data)) => <>(rpc = "returned")

\* a call with expect, never satisfied, ended by the timeout after the device
\* fell silent
C30_Witness ==
    /\ rpc = "returned"
    /\ reason = "timeout"
    /\ expect /\ ~expectSeen
    /\ ~lastChunk.data
    /\ idleTicks >= 2
    /\ sinceSend > idleTicks

(***************************************************************************)
(* Milestones, ambiguous copy output, the verification pass                *)
(***************************************************************************)

\* the milestone values in their order, from the first to COMPLETED
Milestones == SubSeq(ProvisioningState, 1, 9)

\* C31: whenever self.state is COMPLETED it has before taken every milestone
\* value, each once and in the order of the enumeration, CONFIG_COPIED_TO_FLASH
\* after step 5 and CONFIG_APPLIED after step 6 among them.
C31_CompletedTookEveryMilestone ==
    state = "COMPLETED" => history = Milestones

\* the output of the copy command holds neither a success marker nor an
\* error or failure marker
CopyAmbiguous ==
    /\ step_output.cmd = "copy ftp flash"
    /\ step_output.text.found = {}

\* C32: when the output of the copy command holds none of the success and
\* error markers, step 5 returns without raising, and the next thing the
\* workflow does is to enter step 6.
C32_AmbiguousCopyContinues ==
    [][ CopyAmbiguous =>
            /\ pc = "step6"
            /\ failedStep = 0
            /\ exc = NoExc
            /\ executed' = Append(executed, 6) ]_vars

\* a run whose copy output was ambiguous and whose step 6 sent the activate
\* command
C32_Witness ==
    /\ \E entry \in log : entry.site = "_step_copy_config_to_flash:480"
    /\ executed = <<1, 2, 3, 4, 5, 6>>
    /\ \E i \in 1..Len(sentCmds) : sentCmds[i] = "copy running-config"
    /\ state = "DEVICE_VERIFIED"

\* the check commands written to the console so far
VerifyCmdsIssued ==
    Cardinality({ i \in 1..Len(sentCmds) :
                    sentCmds[i] \in { VerifyCmd(kind) : kind \in MarkerKinds } })

\* C33: in a verification pass that is not interrupted, a check whose command
\* raised does not end the pass and does not put its marker on the missing
\* list: a command is issued for every marker, only markers whose check
\* completed without their value are named in the error, and a pass in which
\* every check raised succeeds, the run ending in COMPLETED.
C33_CheckErrorIsInconclusive ==
    (check_results.ran
     /\ \A i \in 1..Len(check_results.r) : check_results.r[i] # "interrupted")
        => /\ Len(check_results.r) = Len(device_config)
           /\ VerifyCmdsIssued = Len(device_config)
           /\ \A i \in failed_list : check_results.r[i] = "absent"
           /\ (\A i \in 1..Len(check_results.r) : check_results.r[i] = "error")
                => /\ failedStep = 0
                   /\ failed_list = {}
                   /\ pc \in {"complete", "finally", "returned"}
                   /\ pc = "returned" => (state = "COMPLETED" /\ result = "True")

\* a run that ended after a pass of two checks in which every check raised
C33_Witness ==
    /\ pc = "returned"
    /\ check_results.r = <<"error", "error">>
    /\ VerifyCmdsIssued = 2
    /\ failed_list = {}
    /\ state = "COMPLETED"
    /\ result = "True"

----------------------------------------------------------------------------
(* _verify_configuration_applied, check by check                            *)
(* A text is the set of the parts it is put together from; a marker value   *)
(* is one such part, and "value in output" is membership.                   *)

MarkerTypes == {"hostname", "interface", "vlan", "ip_address"}

\* the value the intended configuration gives a marker of each type
MarkerValue ==
    [hostname |-> "edge-1", interface |-> "Gi1", vlan |-> "10",
     ip_address |-> "10.0.0.1"]

Item(t) == [type |-> t, value |-> MarkerValue[t]]

\* the lists _extract_verification_markers can hand to the pass
ItemLists == UNION { [1..n -> { Item(t) : t \in MarkerTypes }] : n \in 0..MaxMarkers }

\* "Build verification command based on item type"
verify_cmd(item) ==
    CASE item.type = "hostname" -> {"show running-config | include hostname"}
      [] item.type = "interface" ->
            {"show running-config interface ", item.value, " | include description"}
      [] item.type = "vlan" -> {"show running-config | include vlan ", item.value}
      [] OTHER -> {"show running-config | include ", item.value}

\* the lines of the running configuration the command's filter lets through
\* when the marker is configured on the device
FilteredLines(item) ==
    CASE item.type = "hostname" -> {"hostname ", item.value}
      [] item.type = "interface" -> {" description ", "uplink"}
      [] item.type = "vlan" -> {"vlan ", item.value}
      [] OTHER -> {" ip address ", item.value, " 255.255.255.0"}

\* execute_device_command: everything read after the command was written,
\* the command line itself when the device echoes what it is sent
CommandOutput(item, running, echo) ==
    (IF echo THEN verify_cmd(item) ELSE {})
        \cup (IF item.value \in running THEN FilteredLines(item) ELSE {})

\* "if item_value.lower() not in output.lower()" is false
ValueInOutput(item, output) == item.value \in output

CheckInit ==
    /\ WfInit /\ RunIdle /\ ConnIdle /\ CloseIdle /\ ParseIdle
    /\ MarkerIdle /\ EnableIdle
    /\ vpc = "loop"
    /\ verification_items \in ItemLists
    /\ running_config \in SUBSET { MarkerValue[t] : t \in MarkerTypes }
    /\ echoes \in BOOLEAN
    /\ vidx = 1
    /\ verdicts = <<>>
    /\ failed_items = <<>>
    /\ vraised = "none"

\* "if not verification_items: ... return"
SkipPass ==
    /\ vpc = "loop"
    /\ verification_items = <<>>
    /\ vraised' = "returned"
    /\ vpc' = "done"
    /\ UNCHANGED <<verification_items, running_config, echoes, vidx, verdicts,
                   failed_items>>
    /\ UNCHANGED <<wfVars, runVars, connVars, closeVars, parseVars, markerVars,
                   enableVars>>

\* one iteration of "for item_type, item_value in verification_items"
CheckItem ==
    /\ vpc = "loop"
    /\ vidx <= Len(verification_items)
    /\ LET item == verification_items[vidx]
           output == CommandOutput(item, running_config, echoes)
       IN  \/ \* execute_device_command raises: logged, nothing else
              /\ verdicts' = Append(verdicts, "error")
              /\ UNCHANGED failed_items
           \/ /\ verdicts' = Append(verdicts, IF ValueInOutput(item, output)
                                              THEN "found" ELSE "missing")
              /\ failed_items' = IF ValueInOutput(item, output)
                                 THEN failed_items
                                 ELSE Append(failed_items, vidx)
    /\ vidx' = vidx + 1
    /\ UNCHANGED <<vpc, verification_items, running_config, echoes, vraised>>
    /\ UNCHANGED <<wfVars, runVars, connVars, closeVars, parseVars, markerVars,
                   enableVars>>

\* after the loop: "if failed_items: raise ConfigurationDeploymentError"
FinishPass ==
    /\ vpc = "loop"
    /\ verification_items # <<>>
    /\ vidx > Len(verification_items)
    /\ vraised' = IF failed_items # <<>> THEN "ConfigurationDeploymentError"
                  ELSE "returned"
    /\ vpc' = "done"
    /\ UNCHANGED <<verification_items, running_config, echoes, vidx, verdicts,
                   failed_items>>
    /\ UNCHANGED <<wfVars, runVars, connVars, closeVars, parseVars, markerVars,
                   enableVars>>

CheckNext ==
    \/ SkipPass
    \/ CheckItem
    \/ FinishPass

SpecCheck == CheckInit /\ [][CheckNext]_vars

\* C34: a check of an interface, vlan or ip_address marker whose value is not
\* in the device's running configuration, and whose command returned, puts
\* the marker on the missing list, whether or not the device echoes the
\* command line.
C34_AbsentMarkerReportedMissing ==
    \A i \in 1..Len(verdicts) :
        LET item == verification_items[i]
        IN  (/\ item.type \in {"interface", "vlan", "ip_address"}
             /\ item.value \notin running_config
             /\ verdicts[i] # "error")
                => /\ verdicts[i] = "missing"
                   /\ \E j \in 1..Len(failed_items) : failed_items[j] = i

----------------------------------------------------------------------------
(* Activation errors *)

\* the output of the activate command holds 'error' and not 'no error'
ApplyErrorMarked ==
    /\ step_output.cmd = "copy running-config"
    /\ "error" \in step_output.text
    /\ "no error" \notin step_output.text

\* C35: when the output of the activate command holds 'error' without
\* 'no error', step 6 is left with ConfigurationDeploymentError whether or not
\* a success indicator is in the output as well; self.state has never been
\* CONFIG_APPLIED or COMPLETED, no marker is checked and no check command is
\* issued.
C35_ApplyErrorMarkerRaises ==
    ApplyErrorMarked
        => /\ failedStep = 6
           /\ stepExc = "ConfigurationDeploymentError"
           /\ pc \in {"except", "finally", "returned"}
           /\ \A i \in 1..Len(history) :
                 history[i] \notin {"CONFIG_APPLIED", "COMPLETED"}
           /\ ~check_results.ran
           /\ VerifyCmdsIssued = 0
           /\ result \in {"none", "ProvisioningError"}

\* a run that ended after an activate output with both 'error' and a success
\* indicator, for a configuration that yields markers
C35_Witness ==
    /\ pc = "returned"
    /\ ApplyErrorMarked
    /\ step_output.text \cap ApplyIndicators # {}
    /\ Len(device_config) = MaxMarkers
    /\ state = "FAILED"
    /\ result = "ProvisioningError"

----------------------------------------------------------------------------
(* _extract_verification_markers                                            *)
(* A configuration text is the sequence of its lines, each line given by    *)
(* its kind: "hostname <token>", "interface <name>", " description <text>", *)
(* " description" without text, "vlan <digits>", " ip address <a> <mask>".  *)
(* The token, name, number or address of line i is i.                       *)

LineKinds == {"hostname", "interface", "desc", "nodesc", "vlan", "ip"}

ConfigTexts == UNION { [1..n -> LineKinds] : n \in 0..MaxConfigLines }

Marker(type, value) == [type |-> type, value |-> value]

\* the lines of a kind, in their order in the text
LinesOf(cfg, kind) ==
    LET IsKind(i) == cfg[i] = kind
    IN  SelectSeq([i \in 1..Len(cfg) |-> i], IsKind)

\* seq[:n]
First(seq, n) == SubSeq(seq, 1, Min(n, Len(seq)))

\* the first "interface" line at or after line a, Len(cfg) + 1 when none:
\* where "^interface" matches next
NextInterface(cfg, a) ==
    IF \E k \in a..Len(cfg) : cfg[k] = "interface"
    THEN CHOOSE k \in a..Len(cfg) :
            /\ cfg[k] = "interface"
            /\ \A l \in a..(k-1) : cfg[l] # "interface"
    ELSE Len(cfg) + 1

\* One match of
\*   ^interface\s+(\S+).*?(?:description\s+(.+?))?(?=^interface|\Z)
\* starting at the interface line i. The lazy .*? stops at the first
\* "description" that whitespace and at least one more character follow; the
\* lazy (.+?) then runs to the next "^interface" or the end of the text. After
\* a " description" line without text, \s+ takes the line break and (.+?) the
\* line that follows: a later line of the block or, when the block ends
\* there, the next interface line, and the match runs on to the interface
\* line after that one. [desc: group 2 is not empty, end: where the match ends]
InterfaceMatch(cfg, i) ==
    LET k == NextInterface(cfg, i + 1)
        Takes(j) ==
            \/ cfg[j] = "desc"
            \/ cfg[j] = "nodesc" /\ (j + 1 < k \/ (j + 1 = k /\ k <= Len(cfg)))
    IN  IF \E j \in (i+1)..(k-1) : Takes(j)
        THEN LET j == CHOOSE j \in (i+1)..(k-1) :
                        Takes(j) /\ \A l \in (i+1)..(j-1) : ~Takes(l)
             IN  [desc |-> TRUE,
                  end |-> IF cfg[j] = "nodesc" /\ j + 1 = k
                          THEN NextInterface(cfg, k + 1) ELSE k]
        ELSE [desc |-> FALSE, end |-> k]

\* re.findall of the interface pattern from line pos on: (intf, desc) pairs
RECURSIVE interface_matches(_, _)
interface_matches(cfg, pos) ==
    LET i == NextInterface(cfg, pos)
    IN  IF i > Len(cfg) THEN <<>>
        ELSE <<[intf |-> i, desc |-> InterfaceMatch(cfg, i).desc]>>
                \o interface_matches(cfg, InterfaceMatch(cfg, i).end)

\* "for intf, desc in interface_matches[:3]: if desc and desc.strip()"
InterfaceMarkers(cfg) ==
    LET HasDesc(m) == m.desc
        kept == SelectSeq(First(interface_matches(cfg, 1), 3), HasDesc)
    IN  [n \in 1..Len(kept) |-> Marker("interface", kept[n].intf)]

\* _extract_verification_markers
extract_verification_markers(cfg) ==
    IF cfg = <<>> THEN <<>>
    ELSE LET hostnames == First(LinesOf(cfg, "hostname"), 1)
             vlans == First(LinesOf(cfg, "vlan"), 3)
             ips == First(LinesOf(cfg, "ip"), 2)
         IN  [n \in 1..Len(hostnames) |-> Marker("hostname", hostnames[n])]
                \o InterfaceMarkers(cfg)
                \o [n \in 1..Len(vlans) |-> Marker("vlan", vlans[n])]
                \o [n \in 1..Len(ips) |-> Marker("ip_address", ips[n])]

MarkersInit ==
    /\ WfInit /\ RunIdle /\ ConnIdle /\ CloseIdle /\ ParseIdle
    /\ EnableIdle /\ CheckIdle
    /\ mpc = "input"
    /\ config \in ConfigTexts
    /\ markers = <<>>

\* _extract_verification_markers is called on self.device_config
ExtractMarkers ==
    /\ mpc = "input"
    /\ markers' = extract_verification_markers(config)
    /\ mpc' = "extracted"
    /\ UNCHANGED config
    /\ UNCHANGED <<wfVars, runVars, connVars, closeVars, parseVars, enableVars,
                   checkVars>>

MarkersNext == ExtractMarkers

SpecMarkers == MarkersInit /\ [][MarkersNext]_vars

\* the interface lines whose block, up to the next interface line or the end
\* of the text, holds a description line with text
QualifyingBlocks(cfg) ==
    LET Qualifies(i) ==
            /\ cfg[i] = "interface"
            /\ \E j \in (i+1)..(NextInterface(cfg, i + 1) - 1) : cfg[j] = "desc"
    IN  SelectSeq([i \in 1..Len(cfg) |-> i], Qualifies)

\* the values of the markers of a type, in the order emitted
Emitted(type) ==
    LET OfType(m) == m.type = type
        kept == SelectSeq(markers, OfType)
    IN  [n \in 1..Len(kept) |-> kept[n].value]

\* C36: the interface markers emitted are the first three interface blocks
\* that hold a description with text, blocks without one being skipped and
\* later blocks taking their place; and no more than one hostname, three
\* interface, three vlan and two ip_address markers are emitted.
C36_FirstThreeQualifyingBlocks ==
    mpc = "extracted" =>
        /\ Emitted("interface") = First(QualifyingBlocks(config), 3)
        /\ Len(Emitted("hostname")) <= 1
        /\ Len(Emitted("interface")) <= 3
        /\ Len(Emitted("vlan")) <= 3
        /\ Len(Emitted("ip_address")) <= 2

----------------------------------------------------------------------------
(* _enter_enable_mode                                                       *)
(* What _read_channel returns is a set of the parts that matter to the      *)
(* method: the prompt character and a password prompt in one of its         *)
(* spellings.                                                               *)

\* what the console can answer: nothing, a user prompt, a privileged prompt,
\* a password prompt in three spellings, a password prompt after a banner
\* that holds '#'
EnableOutputs ==
    { {}, {">"}, {"#"}, {"Password:"}, {"password:"}, {"PASSWORD:"},
      {"#", "Password:"} }

\* str.lower() of a part
LowerPart(part) ==
    IF part \in {"Password:", "PASSWORD:"} THEN "password:" ELSE part

\* output.lower()
LowerText(output) == { LowerPart(part) : part \in output }

\* "if '#' in output" / "if '#' not in output" is false
InEnableMode(output) == "#" \in output

\* a test for the challenge as the device spells it by default
PasswordRequired_ExactCase(output) == "Password:" \in output

\* "if 'password:' in output.lower() or 'Password:' in output"
PasswordRequired(output) ==
    "password:" \in LowerText(output) \/ "Password:" \in output

\* "except Exception as e: raise ProvisioningError(...)"
EnableRaises(e) == IF IsInstance(e, "Exception") THEN "ProvisioningError" ELSE e

\* what can keep a send-sleep-read stage from reading: channel.send raises,
\* or the sleep is interrupted after the send
StageFaults == {"OSError", "KeyboardInterrupt"}

EnableInit ==
    /\ WfInit /\ RunIdle /\ ConnIdle /\ CloseIdle /\ ParseIdle
    /\ MarkerIdle /\ CheckIdle
    /\ epc = "prompt"
    /\ sends = <<>>
    /\ outputs = <<>>
    /\ eraised = "none"

\* a stage that writes `text` and does not get to read
StageFails(text) ==
    \E e \in StageFaults :
        /\ sends' = IF e = "KeyboardInterrupt" THEN Append(sends, text) ELSE sends
        /\ eraised' = EnableRaises(e)
        /\ epc' = "done"
        /\ UNCHANGED outputs

\* "Send carriage return to get current prompt", "Check if already in enable mode"
GetPrompt ==
    /\ epc = "prompt"
    /\ \/ StageFails("\r\n")
       \/ \E output \in EnableOutputs :
            /\ sends' = Append(sends, "\r\n")
            /\ outputs' = Append(outputs, output)
            /\ IF InEnableMode(output)
               THEN eraised' = "returned" /\ epc' = "done"
               ELSE eraised' = eraised /\ epc' = "enable"
    /\ UNCHANGED <<wfVars, runVars, connVars, closeVars, parseVars, markerVars,
                   checkVars>>

\* "Try to enter enable mode", "Check if password is required"
SendEnable ==
    /\ epc = "enable"
    /\ \/ StageFails("enable\r\n")
       \/ \E output \in EnableOutputs :
            /\ sends' = Append(sends, "enable\r\n")
            /\ outputs' = Append(outputs, output)
            /\ epc' = IF PasswordRequired(output) THEN "password" ELSE "recheck"
            /\ UNCHANGED eraised
    /\ UNCHANGED <<wfVars, runVars, connVars, closeVars, parseVars, markerVars,
                   checkVars>>

\* "Attempting to proceed without password (press Enter)"
SendEmptyPassword ==
    /\ epc = "password"
    /\ \/ StageFails("\r\n")
       \/ \E output \in EnableOutputs :
            /\ sends' = Append(sends, "\r\n")
            /\ outputs' = Append(outputs, output)
            /\ epc' = "recheck"
            /\ UNCHANGED eraised
    /\ UNCHANGED <<wfVars, runVars, connVars, closeVars, parseVars, markerVars,
                   checkVars>>

\* "Verify we're in enable mode now"
Recheck ==
    /\ epc = "recheck"
    /\ \/ StageFails("\r\n")
       \/ \E output \in EnableOutputs :
            /\ sends' = Append(sends, "\r\n")
            /\ outputs' = Append(outputs, output)
            /\ eraised' = IF InEnableMode(output) THEN "returned"
                          ELSE EnableRaises("ProvisioningError")
            /\ epc' = "done"
    /\ UNCHANGED <<wfVars, runVars, connVars, closeVars, parseVars, markerVars,
                   checkVars>>

EnableNext ==
    \/ GetPrompt
    \/ SendEnable
    \/ SendEmptyPassword
    \/ Recheck

SpecEnable == EnableInit /\ [][EnableNext]_vars

\* the privileged marker is in the output
MarkerSeen(output) == "#" \in output

\* a password challenge is in the output, however it is spelled
ChallengeSeen(output) == output \cap {"Password:", "password:", "PASSWORD:"} # {}

\* the writes and reads the handshake makes after the first read came back
\* without the marker, when nothing fails: the elevation command, an empty
\* line in answer to a challenge, the empty line of the re-check
ExpectedSends ==
    <<"\r\n", "enable\r\n">>
        \o (IF Len(outputs) >= 2 /\ ChallengeSeen(outputs[2]) THEN <<"\r\n">> ELSE <<>>)
        \o <<"\r\n">>

\* C37: when the first read after the carriage return shows the privileged
\* marker, nothing more is written and the method returns. Otherwise the
\* elevation command is the next thing written; an empty line is written in
\* answer exactly when the answer to the elevation command holds a password
\* challenge; one more empty line is written for the re-check, after which
\* the method returns if the marker is there and raises ProvisioningError if
\* it is not. A failure to write raises ProvisioningError as well.
C37_EnterPrivilegedMode ==
    /\ (Len(outputs) >= 1 /\ MarkerSeen(outputs[1]))
            => (sends = <<"\r\n">> /\ epc = "done" /\ eraised = "returned")
    /\ (Len(outputs) >= 1 /\ ~MarkerSeen(outputs[1]))
            => /\ Len(sends) <= Len(ExpectedSends)
               /\ sends = SubSeq(ExpectedSends, 1, Len(sends))
               /\ (epc = "enable" => sends = <<"\r\n">>)
               /\ (epc # "enable" /\ eraised # "ProvisioningError") => Len(sends) >= 2
    /\ (epc = "done" /\ Len(outputs) >= 2 /\ Len(outputs) = Len(ExpectedSends))
            => eraised = IF MarkerSeen(outputs[Len(outputs)])
                         THEN "returned" ELSE "ProvisioningError"
    /\ eraised = "returned"
            => /\ MarkerSeen(outputs[Len(outputs)])
               /\ ~MarkerSeen(outputs[1]) => sends = ExpectedSends
    /\ epc = "done" => eraised \in {"returned", "ProvisioningError", "KeyboardInterrupt"}

\* a handshake that met a challenge spelled in capitals, answered it with an
\* empty line and failed on the re-check
C37_Witness ==
    /\ epc = "done"
    /\ sends = <<"\r\n", "enable\r\n", "\r\n", "\r\n">>
    /\ Len(outputs) = 4
    /\ outputs[2] = {"PASSWORD:"}
    /\ ~MarkerSeen(outputs[4])
    /\ eraised = "ProvisioningError"

----------------------------------------------------------------------------
(* get_status *)

\* a status dictionary without the serial read from the device
get_status_WithoutObserved ==
    [state |-> StateValue(state),
     expected_serial |-> expected_serial,
     actual_serial |-> None]

\* get_status: the entries of the dictionary that depend on the run
get_status ==
    [state |-> StateValue(state),
     expected_serial |-> expected_serial,
     actual_serial |-> actual_serial]

\* C38: once a run has failed on a serial mismatch and provision_device has
\* raised, get_status holds the state 'failed', the serial the inventory
\* expects and the serial read from the device, the two being different.
C38_StatusAfterMismatch ==
    (pc = "returned" /\ SerialMismatch)
        => /\ get_status.state = StateValue("FAILED")
           /\ get_status.expected_serial \in ExpectedSerials
           /\ get_status.actual_serial = SerialIn[step_output.text]
           /\ get_status.actual_serial # None
           /\ Lower(get_status.expected_serial) # Lower(get_status.actual_serial)

\* a run that ended on a mismatch between two serials that are both there
C38_Witness ==
    /\ pc = "returned"
    /\ SerialMismatch
    /\ result = "ProvisioningError"
    /\ get_status.expected_serial = <<"b", "b">>
    /\ get_status.actual_serial = <<"A", "b">>

----------------------------------------------------------------------------
(* connect with any retry count; a configuration without markers *)

\* C39: whatever the retry count, zero and negative values included, a call
\* of connect that returned normally has left the manager connected.
C39_ReturnsOnlyConnected ==
    raised.kind = "returned" => connected

\* C40: when the intended configuration yields no verification marker and the
\* activate command reported no error, the verification pass issues no
\* device command and raises nothing, and the run ends in COMPLETED with
\* provision_device returning True.
C40_NoMarkersPassSucceeds ==
    (check_results.ran /\ Len(device_config) = 0)
        => /\ check_results.r = <<>>
           /\ VerifyCmdsIssued = 0
           /\ sentCmds[Len(sentCmds)] = "copy running-config"
           /\ failedStep = 0
           /\ failed_list = {}
           /\ pc \in {"complete", "finally", "returned"}
           /\ pc = "returned" => (state = "COMPLETED" /\ result = "True")

\* a completed run for a configuration without markers
C40_Witness ==
    /\ pc = "returned"
    /\ device_config = <<>>
    /\ check_results.ran
    /\ state = "COMPLETED"
    /\ result = "True"
    /\ sentCmds = <<"terminal length 0", "show version", "copy ftp flash",
                    "copy running-config">>

====
